---------------------------- MODULE Spec2Model ----------------------------
(***************************************************************************)
(* A model of the structural-sharing engine of immutable-linked-ordered-   *)
(* map (src/webpack.config.js, the bundle that holds the newer             *)
(* ImmutableLinkedOrderedMap.js).  Nodes, heap maps and map versions live  *)
(* in three growing stores; a reference is an index into its store and 0   *)
(* is JavaScript's null / undefined.                                       *)
(***************************************************************************)
EXTENDS Integers, Sequences, FiniteSets, TLC

\* nodes, heaps, maps: the three stores.  returned: the maps handed to client
\* code.  shown: what each of them showed when it was handed over.  origin:
\* the call that made each of them, [by, given, afterNoOp, method, args].  idle: the maps a
\* mutation method returned as they were.  last: the last call that handed
\* the client a new map, [op, on, args, ret, before]
VARIABLES nodes, heaps, maps, returned, shown, origin, idle, last

vars == <<nodes, heaps, maps, returned, shown, origin, idle, last>>

(***************************************************************************)
(* Bounds of the model.                                                    *)
(***************************************************************************)
\* keys are 1..MaxKey
MaxKey == 3
\* values are 1..MaxValue (compared with ===, so only identity matters)
MaxValue == 2
\* map versions alive in one run of Spec (the root included)
MaxMaps == 2
\* length of the initialItems array handed to the factory
MaxInit == 2
\* length of the items array handed to set
MaxItems == 2
\* map versions alive in one run of SpecBranch
MaxBranchMaps == 5

\* the maps a history of SpecChain may hold
MaxChainMaps == 3
MaxEmptyMaps == 4
\* map versions alive in one run of SpecDepth
MaxDepthMaps == 3
\* map versions alive in one run of SpecFork: a root with ten and more children
MaxForkMaps == 12
MaxEntryMaps == 4
MaxEntryForkMaps == 11

Keys == 1..MaxKey
Values == 1..MaxValue
Items == [key : Keys, value : Values]

\* null and undefined
Null == 0
Undefined == 0

\* ImmutableLinkedOrderedMapMode
SINGLE == 1
MULTIWAY == 2
LIGHTWEIGHT == 3
Modes == {SINGLE, MULTIWAY, LIGHTWEIGHT}

MULTIWAY_MODE_INITIAL_MAP_TREE_DEPTH_VERSION == <<>>
MULTIWAY_MODE_MAP_TREE_DEPTH_VERSION_SEPARATOR == "#"

\* the two source files of the map: the bundle and the entry file it is built
\* from; a map keeps the file whose constructor made its root
BundleFile == "webpack.config.js"
EntryFile == "src/ImmutableLinkedOrderedMap.js"

\* the separator of the entry file
ENTRY_MULTIWAY_MODE_MAP_TREE_DEPTH_VERSION_SEPARATOR == "@"

(***************************************************************************)
(* LinkedOrderedMap: the mutable ordered map used for depth layers and     *)
(* version stacks.  A sequence of [key, value] cells in list order.        *)
(***************************************************************************)
LomHas(l, k) == \E i \in 1..Len(l) : l[i].key = k

LomIdx(l, k) == CHOOSE i \in 1..Len(l) : l[i].key = k

LomGet(l, k) == IF LomHas(l, k) THEN l[LomIdx(l, k)].value ELSE Undefined

\* an existing key is overwritten in place; a new one is appended or prepended
LomSet(l, k, v, prepend) ==
  IF LomHas(l, k) THEN [l EXCEPT ![LomIdx(l, k)].value = v]
  ELSE IF prepend THEN <<[key |-> k, value |-> v]>> \o l
  ELSE Append(l, [key |-> k, value |-> v])

(***************************************************************************)
(* Versions are strings; a string is a sequence of one-character strings.  *)
(***************************************************************************)
DigitChar(d) == <<"0", "1", "2", "3", "4", "5", "6", "7", "8", "9">>[d + 1]

RECURSIVE Decimal(_)
Decimal(n) == IF n < 10 THEN <<DigitChar(n)>>
              ELSE Decimal(n \div 10) \o <<DigitChar(n % 10)>>

\* a version test that compares the lengths only
isAncestorBroken(possibleAncestorVersion, descendantVersion) ==
  Len(possibleAncestorVersion) <= Len(descendantVersion)

\* descendantVersion.substring(0, possibleAncestorVersion.length) === possibleAncestorVersion
isAncestorVersionOfDescendantVersion(possibleAncestorVersion, descendantVersion) ==
  LET n == IF Len(possibleAncestorVersion) < Len(descendantVersion)
           THEN Len(possibleAncestorVersion) ELSE Len(descendantVersion)
  IN SubSeq(descendantVersion, 1, n) = possibleAncestorVersion

(***************************************************************************)
(* The store: st = [nodes, heaps, maps].                                   *)
(***************************************************************************)
NoChange ==
  [label |-> "none", inserted |-> <<>>, updated |-> <<>>, prependMissing |-> FALSE,
   oldKey |-> 0, key |-> 0, value |-> 0, wasInserted |-> FALSE, wasUpdated |-> FALSE,
   hadExistentNodeForKey |-> FALSE]

\* an array slot that was never assigned, and undefined where an element is
\* expected
Hole == [key |-> Undefined, value |-> Undefined]

\* the element of a node
Element(st, n) == [key |-> st.nodes[n].key, value |-> st.nodes[n].value]

AddNode(st, node) == [st EXCEPT !.nodes = Append(@, node)]

\* the place of the next node made, and of the next map made
NextNode(st) == Len(st.nodes) + 1
NextMap(st) == Len(st.maps) + 1

WithHead(st, m, n) == [st EXCEPT !.maps[m].head = n]
WithTail(st, m, n) == [st EXCEPT !.maps[m].tail = n]
WithLength(st, m, n) == [st EXCEPT !.maps[m].length = n]

isOrphanNode(st, n) == st.nodes[n].isOrphanNode

nodeOrUndefined(st, n) == IF n # Null /\ ~isOrphanNode(st, n) THEN n ELSE Undefined

\* index of the first cell of depth layer l whose depth is visible from `depth`
FirstVisible(l, depth) ==
  LET S == {i \in 1..Len(l) : depth >= l[i].key}
  IN IF S = {} THEN 0 ELSE CHOOSE i \in S : \A j \in S : i <= j

\* the newest entry of a version stack written by an ancestor version, or 0
StackHit(stack, version) ==
  LET S == {i \in 1..Len(stack) :
              isAncestorVersionOfDescendantVersion(stack[i].key, version)}
  IN IF S = {} THEN Null
     ELSE stack[CHOOSE i \in S : \A j \in S : i <= j].value

\* the walk of lookupMultiwayMode / findMultiwayModeMapNodeByDirection: depth
\* layers in list order, each visible layer's first ancestor entry, the walk
\* stopping at the first truthy one
MultiwayWalk(l, depth, version) ==
  LET S == {i \in 1..Len(l) :
              depth >= l[i].key /\ StackHit(l[i].value, version) # Null}
  IN IF S = {} THEN Null
     ELSE StackHit(l[CHOOSE i \in S : \A j \in S : i <= j].value, version)

---------------------------------------------------------------------------
(* single mode *)

makeSingleModeImmutableLinkedOrderedMapNode(map, previous, next, key, value) ==
  [key |-> key, value |-> value, isOrphanNode |-> FALSE,
   previous |-> LomSet(<<>>, map.depth, previous, FALSE),
   next |-> LomSet(<<>>, map.depth, next, FALSE)]

bindSingleModeNodes(st, m, previousNode, nextNode) ==
  LET depth == st.maps[m].depth
  IN [st EXCEPT
        !.nodes = [[@ EXCEPT ![previousNode].next = LomSet(@, depth, nextNode, TRUE)]
                      EXCEPT ![nextNode].previous = LomSet(@, depth, previousNode, TRUE)]]

findSingleModeMapNodeByDirection(st, m, fromNode, nextNodeDirection) ==
  IF \/ (fromNode = st.maps[m].tail /\ nextNodeDirection = "next")
     \/ (fromNode = st.maps[m].head /\ nextNodeDirection = "previous")
  THEN Null
  ELSE LET directionMap == IF nextNodeDirection = "next"
                           THEN st.nodes[fromNode].next
                           ELSE st.nodes[fromNode].previous
           i == FirstVisible(directionMap, st.maps[m].depth)
       IN IF i = 0 THEN Null ELSE directionMap[i].value

updateSingleModeHeapMap(st, m, itemNode) ==
  LET map == st.maps[m]
      key == st.nodes[itemNode].key
  IN [st EXCEPT !.heaps[map.heap][key] = LomSet(@, map.depth, itemNode, TRUE)]

\* the entry file's lookup: return node
lookupSingleModeEntry(st, m, key) ==
  IF key \notin Keys THEN Undefined
  ELSE LET depthMap == st.heaps[st.maps[m].heap][key]
           i == FirstVisible(depthMap, st.maps[m].depth)
       IN IF i = 0 \/ depthMap[i].value = Null THEN Undefined ELSE depthMap[i].value

lookupSingleMode(st, m, key) ==
  IF key \notin Keys THEN Undefined
  ELSE LET depthMap == st.heaps[st.maps[m].heap][key]
           i == FirstVisible(depthMap, st.maps[m].depth)
       IN IF i = 0 THEN Undefined ELSE nodeOrUndefined(st, depthMap[i].value)

---------------------------------------------------------------------------
(* multiway mode *)

makeMultiwayModeImmutableLinkedOrderedMapNode(map, previous, next, key, value) ==
  [key |-> key, value |-> value, isOrphanNode |-> FALSE,
   previous |-> LomSet(<<>>, map.depth, LomSet(<<>>, map.version, previous, FALSE), FALSE),
   next |-> LomSet(<<>>, map.depth, LomSet(<<>>, map.version, next, FALSE), FALSE)]

\* one side of bindMultiwayModeNodes: the depth layer is prepended when missing,
\* then the version entry is prepended to (or overwritten in) its stack
BindLayer(l, depth, version, node) ==
  LET l1 == IF ~LomHas(l, depth) THEN LomSet(l, depth, <<>>, TRUE) ELSE l
  IN LomSet(l1, depth, LomSet(LomGet(l1, depth), version, node, TRUE), TRUE)

bindMultiwayModeNodes(st, m, previousNode, nextNode) ==
  LET depth == st.maps[m].depth
      version == st.maps[m].version
  IN [st EXCEPT
        !.nodes = [[@ EXCEPT ![previousNode].next = BindLayer(@, depth, version, nextNode)]
                      EXCEPT ![nextNode].previous = BindLayer(@, depth, version, previousNode)]]

findMultiwayModeMapNodeByDirection(st, m, fromNode, nextNodeDirection) ==
  IF \/ (fromNode = st.maps[m].tail /\ nextNodeDirection = "next")
     \/ (fromNode = st.maps[m].head /\ nextNodeDirection = "previous")
  THEN Null
  ELSE LET directionMap == IF nextNodeDirection = "next"
                           THEN st.nodes[fromNode].next
                           ELSE st.nodes[fromNode].previous
       IN MultiwayWalk(directionMap, st.maps[m].depth, st.maps[m].version)

updateMultiWayModeHeapMap(st, m, itemNode) ==
  LET map == st.maps[m]
      key == st.nodes[itemNode].key
  IN [st EXCEPT !.heaps[map.heap][key] = BindLayer(@, map.depth, map.version, itemNode)]

\* the entry file's lookup: return node
lookupMultiwayModeEntry(st, m, key) ==
  LET map == st.maps[m]
      node == MultiwayWalk(st.heaps[map.heap][key], map.depth, map.version)
  IN IF key \notin Keys \/ node = Null THEN Undefined ELSE node

\* the entry file's version of a forked map: the child count alone under the
\* initial version, else the ancestor's version, the separator and the count
forkMultiwayModeMapEntry(version, childrenCount) ==
  IF Len(version) = 0 THEN Decimal(childrenCount + 1)
  ELSE version \o <<ENTRY_MULTIWAY_MODE_MAP_TREE_DEPTH_VERSION_SEPARATOR>>
               \o Decimal(childrenCount + 1)

lookupMultiwayMode(st, m, key) ==
  LET map == st.maps[m]
  IN IF key \notin Keys THEN Undefined
     ELSE nodeOrUndefined(st, MultiwayWalk(st.heaps[map.heap][key], map.depth, map.version))

\* a fork that hands the version of the ancestor on as it is
forkMultiwayModeMapSame(version, childrenCount) == version

\* a version that sets the separator between the counts only
forkMultiwayModeMapUnclosed(version, childrenCount) ==
  IF Len(version) = 0 THEN Decimal(childrenCount + 1)
  ELSE version \o <<MULTIWAY_MODE_MAP_TREE_DEPTH_VERSION_SEPARATOR>> \o Decimal(childrenCount + 1)

\* the version of the next child of a map with this version and children count
forkMultiwayModeMap(version, childrenCount) ==
  version \o Decimal(childrenCount + 1) \o <<MULTIWAY_MODE_MAP_TREE_DEPTH_VERSION_SEPARATOR>>

---------------------------------------------------------------------------
(* lightweight mode *)

makeLightweightModeImmutableLinkedOrderedMapNode(map, previous, next, key, value) ==
  [key |-> key, value |-> value, isOrphanNode |-> FALSE,
   previous |-> previous, next |-> next]

bindLightweightModeNodes(st, m, previousNode, nextNode) ==
  [st EXCEPT
     !.nodes = [[@ EXCEPT ![previousNode].next = nextNode]
                   EXCEPT ![nextNode].previous = previousNode]]

\* a neighbour relation that turns round at the last node
findLightweightModeMapNodeByDirectionTurn(st, m, fromNode, nextNodeDirection) ==
  IF nextNodeDirection = "next"
  THEN IF st.nodes[fromNode].next = Null THEN st.nodes[fromNode].previous
       ELSE st.nodes[fromNode].next
  ELSE st.nodes[fromNode].previous

findLightweightModeMapNodeByDirection(st, m, fromNode, nextNodeDirection) ==
  IF nextNodeDirection = "next" THEN st.nodes[fromNode].next
  ELSE st.nodes[fromNode].previous

updateLightweightModeHeapMap(st, m, itemNode) ==
  [st EXCEPT !.heaps[st.maps[m].heap][st.nodes[itemNode].key] = itemNode]

\* the entry file's lookup: return heapMap[key]
lookupLightweightModeEntry(st, m, key) ==
  IF key \notin Keys THEN Undefined
  ELSE st.heaps[st.maps[m].heap][key]

\* a lookup that also answers with a node unset has marked as orphan
lookupLightweightModeOrphans(st, m, key) ==
  IF key \notin Keys THEN Undefined
  ELSE st.heaps[st.maps[m].heap][key]

lookupLightweightMode(st, m, key) ==
  IF key \notin Keys THEN Undefined
  ELSE nodeOrUndefined(st, st.heaps[st.maps[m].heap][key])

---------------------------------------------------------------------------
(* ImmutableLinkedOrderedMapForMode: the dispatch table keyed by mode *)

makeImmutableLinkedOrderedMapNode(st, m, previous, next, key, value) ==
  LET map == st.maps[m]
  IN CASE map.mode = SINGLE ->
            makeSingleModeImmutableLinkedOrderedMapNode(map, previous, next, key, value)
       [] map.mode = MULTIWAY ->
            makeMultiwayModeImmutableLinkedOrderedMapNode(map, previous, next, key, value)
       [] map.mode = LIGHTWEIGHT ->
            makeLightweightModeImmutableLinkedOrderedMapNode(map, previous, next, key, value)

updateHeapMap(st, m, itemNode) ==
  CASE st.maps[m].mode = SINGLE -> updateSingleModeHeapMap(st, m, itemNode)
    [] st.maps[m].mode = MULTIWAY -> updateMultiWayModeHeapMap(st, m, itemNode)
    [] st.maps[m].mode = LIGHTWEIGHT -> updateLightweightModeHeapMap(st, m, itemNode)

bindNodes(st, m, previousNode, nextNode) ==
  CASE st.maps[m].mode = SINGLE -> bindSingleModeNodes(st, m, previousNode, nextNode)
    [] st.maps[m].mode = MULTIWAY -> bindMultiwayModeNodes(st, m, previousNode, nextNode)
    [] st.maps[m].mode = LIGHTWEIGHT -> bindLightweightModeNodes(st, m, previousNode, nextNode)

lookup(st, m, key) ==
  IF st.maps[m].file = EntryFile
  THEN CASE st.maps[m].mode = SINGLE -> lookupSingleModeEntry(st, m, key)
         [] st.maps[m].mode = MULTIWAY -> lookupMultiwayModeEntry(st, m, key)
         [] st.maps[m].mode = LIGHTWEIGHT -> lookupLightweightModeEntry(st, m, key)
  ELSE CASE st.maps[m].mode = SINGLE -> lookupSingleMode(st, m, key)
         [] st.maps[m].mode = MULTIWAY -> lookupMultiwayMode(st, m, key)
         [] st.maps[m].mode = LIGHTWEIGHT -> lookupLightweightMode(st, m, key)

findMapNodeByDirection(st, m, fromNode, nextNodeDirection) ==
  CASE st.maps[m].mode = SINGLE ->
         findSingleModeMapNodeByDirection(st, m, fromNode, nextNodeDirection)
    [] st.maps[m].mode = MULTIWAY ->
         findMultiwayModeMapNodeByDirection(st, m, fromNode, nextNodeDirection)
    [] st.maps[m].mode = LIGHTWEIGHT ->
         findLightweightModeMapNodeByDirection(st, m, fromNode, nextNodeDirection)

\* make a node for map m, store it and write it to the heap map; the new node
\* is NextNode of st
MakeAndStore(st, m, key, value) ==
  updateHeapMap(AddNode(st, makeImmutableLinkedOrderedMapNode(st, m, Null, Null, key, value)),
                m, NextNode(st))

---------------------------------------------------------------------------
(* construction and fork *)

EmptyHeapMap(mode) ==
  IF mode = LIGHTWEIGHT THEN [k \in Keys |-> Undefined] ELSE [k \in Keys |-> <<>>]

hydrate(heapMap, depth, length, mode, head, tail, ancestorMap) ==
  [mode |-> mode, heap |-> heapMap, depth |-> depth, length |-> length,
   head |-> head, tail |-> tail, ancestorMap |-> ancestorMap, change |-> NoChange,
   version |-> MULTIWAY_MODE_INITIAL_MAP_TREE_DEPTH_VERSION,
   childrenCount |-> 0, mutationOperationOccurred |-> FALSE, file |-> BundleFile]

\* a new heap map and a new empty map of depth 0 on it; the map is the last of
\* st.maps
hydrateNew(st, mode) ==
  [st EXCEPT !.heaps = Append(@, EmptyHeapMap(mode)),
             !.maps = Append(@, hydrate(Len(st.heaps) + 1, 0, 0, mode, Null, Null, Null))]

\* a fork that stays at the depth of its ancestor
forkMapLevel(st, m) ==
  LET map == st.maps[m]
      newMap == [hydrate(map.heap, map.depth, map.length, map.mode,
                         map.head, map.tail, m)
                  EXCEPT !.file = map.file,
                         !.version = IF map.mode = MULTIWAY
                                     THEN forkMultiwayModeMap(map.version, map.childrenCount)
                                     ELSE @]
      st1 == IF map.mode = MULTIWAY
             THEN [st EXCEPT !.maps[m].childrenCount = @ + 1] ELSE st
  IN [st1 EXCEPT !.maps = Append(@, newMap)]

\* the forked map is NextMap of st
forkMap(st, m) ==
  LET map == st.maps[m]
      newMap == [hydrate(map.heap, map.depth, map.length, map.mode,
                         map.head, map.tail, m)
                  EXCEPT !.depth = @ + 1,
                         !.file = map.file,
                         !.version = IF map.mode # MULTIWAY THEN @
                                     ELSE IF map.file = EntryFile
                                     THEN forkMultiwayModeMapEntry(map.version,
                                                                   map.childrenCount)
                                     ELSE forkMultiwayModeMap(map.version,
                                                              map.childrenCount)]
      st1 == IF map.mode = MULTIWAY
             THEN [st EXCEPT !.maps[m].childrenCount = @ + 1] ELSE st
  IN [st1 EXCEPT !.maps = Append(@, newMap)]

\* the entry file's orphan node: no isOrphanNode mark
addImmutableLinkedOrderedMapOrphanNodeEntry(st, m, key) ==
  updateHeapMap(AddNode(st, makeImmutableLinkedOrderedMapNode(st, m, Null, Null, key,
                                                              Undefined)),
                m, NextNode(st))

addImmutableLinkedOrderedMapOrphanNode(st, m, key) ==
  IF st.maps[m].file = EntryFile
  THEN addImmutableLinkedOrderedMapOrphanNodeEntry(st, m, key)
  ELSE updateHeapMap(AddNode(st, [makeImmutableLinkedOrderedMapNode(st, m, Null, Null, key,
                                                                    Undefined)
                                    EXCEPT !.isOrphanNode = TRUE]),
                     m, NextNode(st))

\* one turn of the loop of appendInitialItemsToMap for an item whose key is not
\* in keysMap.  map.length++ && (keysMap[key] = true): the key is recorded only
\* when the length was not 0
InitItem(ls, m, key, value) ==
  LET node == NextNode(ls.st)
      Counted(st2) ==
        [st |-> WithLength(st2, m, st2.maps[m].length + 1), lastNode |-> node,
         keysMap |-> IF st2.maps[m].length # 0 THEN ls.keysMap \cup {key} ELSE ls.keysMap]
  IN Counted(bindNodes(MakeAndStore(ls.st, m, key, value), m, node, ls.lastNode))

\* the loop of appendInitialItemsToMap over items[i], i = length - 2 .. 0 (here
\* items is 1-based); ls = [st, lastNode, keysMap]
RECURSIVE InitLoop(_, _, _, _)
InitLoop(ls, m, items, i) ==
  IF i < 1 THEN ls
  ELSE InitLoop(IF items[i].key \in ls.keysMap THEN ls
                ELSE InitItem(ls, m, items[i].key, items[i].value),
                m, items, i - 1)

appendInitialItemsToMap(st, m, items) ==
  LET length == Len(items)
      lastItem == items[length]
      newTail == NextNode(st)
      previousTail == st.maps[m].tail
      \* keysMap[tailKey] || (map.length++ && (keysMap[tailKey] = true))
      oldLength == st.maps[m].length
      keysMap == IF oldLength # 0 THEN {lastItem.key} ELSE {}
      Tailed(st1) == WithLength(WithTail(st1, m, newTail), m, oldLength + 1)
      Headed(ls) == IF ls.st.maps[m].head = Null
                    THEN WithHead(ls.st, m, ls.lastNode) ELSE ls.st
      Alone(st3) == IF previousTail = Null THEN WithHead(st3, m, newTail)
                    ELSE bindNodes(st3, m, previousTail, newTail)
  IN IF length = 0 THEN st
     ELSE IF length > 1
     THEN Headed(InitLoop([st |-> Tailed(MakeAndStore(st, m, lastItem.key, lastItem.value)),
                           lastNode |-> newTail, keysMap |-> keysMap],
                          m, items, length - 1))
     ELSE Alone(Tailed(MakeAndStore(st, m, lastItem.key, lastItem.value)))

\* the factory without lazy; the new map is NextMap of st
newImmutableLinkedOrderedMap(st, initialItems, mode) ==
  appendInitialItemsToMap(hydrateNew(st, mode), NextMap(st), initialItems)

\* the factory of the entry file
newImmutableLinkedOrderedMapEntry(st, initialItems, mode) ==
  appendInitialItemsToMap([hydrateNew(st, mode) EXCEPT !.maps[NextMap(st)].file = EntryFile],
                          NextMap(st), initialItems)

---------------------------------------------------------------------------
(* ImmutableLinkedOrderedMap.set *)

\* the fork of `this` made at the first effectful item:
\* map = map || forkMap(this), justForked telling whether this item forked
ForkOnce(ls, this) ==
  IF ls.map # Null THEN [ls EXCEPT !.justForked = FALSE]
  ELSE [ls EXCEPT !.st = forkMap(ls.st, this), !.map = NextMap(ls.st),
                  !.justForked = TRUE]

\* the branch of a key missing from `this`
SetMissing(ls0, this, key, value, prependMissing) ==
  LET item == [key |-> key, value |-> value]
      Inserted(ls, st1, map, newNode) ==
        LET done(l) == [l EXCEPT !.st = WithLength(@, map, @.maps[map].length + 1),
                                 !.inserted = <<item>> \o @]
        IN IF st1.maps[map].tail = Null /\ prependMissing
           THEN done([ls EXCEPT !.st = WithHead(WithTail(st1, map, newNode), map, newNode)])
           ELSE IF prependMissing
           THEN \* nodes(): prepend
                done([ls EXCEPT !.st = bindNodes(WithHead(st1, map, newNode), map,
                                                 newNode, st1.maps[map].head)])
           ELSE \* nodes(): append
                IF ls.firstPrepend
                THEN done([ls EXCEPT !.st = WithTail(st1, map, newNode),
                                     !.firstPrepend = FALSE,
                                     !.appendOperationOldTail =
                                        IF st1.maps[map].tail # Null
                                        THEN st1.maps[map].tail ELSE @,
                                     !.lastPrepend = newNode])
                ELSE done([ls EXCEPT !.st = bindNodes(st1, map, newNode, ls.lastPrepend),
                                     !.lastPrepend = newNode])
      Forked(ls) ==
        Inserted(ls, MakeAndStore(ls.st, ls.map, key, value), ls.map, NextNode(ls.st))
  IN Forked(ForkOnce(ls0, this))

\* the branch of a key of `this` whose value differs
SetExistent(ls0, this, node, key, value) ==
  LET item == [key |-> key, value |-> value]
      Or(n, other) == IF n # Null THEN n ELSE other
      Neighbour(ls, direction) ==
        Or(IF ~ls.justForked THEN findMapNodeByDirection(ls.st, ls.map, node, direction)
           ELSE Null,
           findMapNodeByDirection(ls.st, this, node, direction))
      Bound(ls, map, newNode, next, st2) ==
        IF next # Null
        THEN [ls EXCEPT !.st = bindNodes(st2, map, newNode, next),
                        !.updated = <<item>> \o @]
        ELSE IF ls.appendOperationOldTail # Null
        THEN [ls EXCEPT !.st = st2, !.appendOperationOldTail = newNode,
                        !.updated = <<item>> \o @]
        ELSE [ls EXCEPT !.st = WithTail(st2, map, newNode),
                        !.updated = <<item>> \o @]
      Made(ls, map, newNode, previous, next, st1) ==
        Bound(ls, map, newNode, next,
              IF previous # Null THEN bindNodes(st1, map, previous, newNode)
              ELSE WithHead(st1, map, newNode))
      Forked(ls) ==
        Made(ls, ls.map, NextNode(ls.st), Neighbour(ls, "previous"), Neighbour(ls, "next"),
             MakeAndStore(ls.st, ls.map, key, value))
  IN Forked(ForkOnce(ls0, this))

\* one turn of the loop of set for an item whose key is not in keysMap yet
SetItem(ls1, this, key, value, prependMissing) ==
  LET Found(node) ==
        IF node = Undefined THEN SetMissing(ls1, this, key, value, prependMissing)
        ELSE IF ls1.st.nodes[node].value # value
        THEN SetExistent(ls1, this, node, key, value)
        ELSE ls1
  IN Found(lookup(ls1.st, this, key))

\* one turn of the loop of set that takes every item, also one whose key an
\* item of a higher index had
SetTurnOfEvery(ls, this, item, prependMissing) ==
  SetItem([ls EXCEPT !.keysMap = @ \cup {item.key}], this, item.key, item.value,
          prependMissing)

\* one turn of the loop of set: if (keysMap[key]) continue; keysMap[key] = true
SetTurn(ls, this, item, prependMissing) ==
  IF item.key \in ls.keysMap THEN ls
  ELSE SetItem([ls EXCEPT !.keysMap = @ \cup {item.key}], this, item.key, item.value,
               prependMissing)

\* the loop of set over items[i], i = length - 1 .. 0 (here items is 1-based)
RECURSIVE SetLoop(_, _, _, _, _)
SetLoop(ls, this, items, i, prependMissing) ==
  IF i < 1 THEN ls
  ELSE SetLoop(SetTurn(ls, this, items[i], prependMissing),
               this, items, i - 1, prependMissing)

\* loopEnd of the append case
SetLoopEnd(ls, prependMissing) ==
  LET map == ls.map
      Joined(st1) == IF ls.appendOperationOldTail # Null
                     THEN bindNodes(st1, map, ls.appendOperationOldTail, ls.lastPrepend)
                     ELSE st1
  IN IF prependMissing \/ ls.lastPrepend = Null THEN ls.st
     ELSE Joined(IF ls.st.maps[map].head = Null
                 THEN WithHead(ls.st, map, ls.lastPrepend) ELSE ls.st)

\* a call's outcome: the store after it and the map it returns
Ret(st, map) == [st |-> st, ret |-> map, threw |-> FALSE]

Threw(st) == [st |-> st, ret |-> Null, threw |-> TRUE]

\* ImmutableLinkedOrderedMap.prototype.set, items an array
BaseSet(st, this, items, prependMissing) ==
  LET ls0 == [st |-> st, map |-> Null, justForked |-> FALSE,
              inserted |-> <<>>, updated |-> <<>>, keysMap |-> {},
              appendOperationOldTail |-> Null, lastPrepend |-> Null,
              firstPrepend |-> TRUE]
      Looped(ls) ==
        IF ls.map = Null THEN Ret(st, this)
        ELSE Ret([SetLoopEnd(ls, prependMissing) EXCEPT !.maps[ls.map].change =
                     [NoChange EXCEPT !.label = "set", !.inserted = ls.inserted,
                                      !.updated = ls.updated,
                                      !.prependMissing = prependMissing]],
                 ls.map)
  IN IF Len(items) = 0 THEN Ret(st, this)
     ELSE Looped(SetLoop(ls0, this, items, Len(items), prependMissing))

---------------------------------------------------------------------------
(* ImmutableLinkedOrderedMap.replace *)

ReplaceChange(oldKey, key, value, wasInserted, wasUpdated, hadExistentNodeForKey,
              prependMissing) ==
  [NoChange EXCEPT !.label = "replace", !.oldKey = oldKey, !.key = key, !.value = value,
                   !.wasInserted = wasInserted, !.wasUpdated = wasUpdated,
                   !.hadExistentNodeForKey = hadExistentNodeForKey,
                   !.prependMissing = prependMissing]

\* newNode takes the place of existentNodeForKey, the node of the item's own key
\* (the two copies of this block in replace differ only in the neighbour that
\* is the replaced node itself: node, previous, next are 0 in the first copy).
\* The neighbours are read through `this`, which the writes to `map` leave alone
ReplaceExistent(st, this, map, existentNodeForKey, newNode, node, previous, next) ==
  LET existentNodeForKeyPrevious ==
        findMapNodeByDirection(st, this, existentNodeForKey, "previous")
      existentNodeForKeyNext ==
        findMapNodeByDirection(st, this, existentNodeForKey, "next")
      Heads(s) == IF existentNodeForKey = s.maps[map].head
                  THEN WithHead(s, map, newNode) ELSE s
      Tails(s) == IF existentNodeForKey = s.maps[map].tail
                  THEN WithTail(s, map, newNode) ELSE s
      Before(s) == IF existentNodeForKeyPrevious = Null THEN s
                   ELSE IF node # existentNodeForKeyPrevious
                   THEN bindNodes(s, map, existentNodeForKeyPrevious, newNode)
                   ELSE IF previous # Null THEN bindNodes(s, map, previous, newNode)
                   ELSE WithHead(s, map, newNode)
      After(s) == IF existentNodeForKeyNext = Null THEN s
                  ELSE IF node # existentNodeForKeyNext
                  THEN bindNodes(s, map, newNode, existentNodeForKeyNext)
                  ELSE IF next # Null THEN bindNodes(s, map, newNode, next)
                  ELSE WithTail(s, map, newNode)
  IN After(Before(Tails(Heads(st))))

\* oldKey is missing and addMissing is true
ReplaceAddMissing(st, this, oldKey, item, prependMissing) ==
  LET map == NextMap(st)
      newNode == NextNode(st)
      \* the lookup runs before key is read from the item: key is undefined
      existentNodeForKey == lookup(st, this, Undefined)
      key == item.key
      value == item.value
      hadExistentNodeForKey == existentNodeForKey # Undefined
      wasUpdated == hadExistentNodeForKey /\ st.nodes[existentNodeForKey].value # value
      Replaced(s1) ==
        IF wasUpdated
        THEN ReplaceExistent(s1, this, map, existentNodeForKey, newNode, Null, Null, Null)
        ELSE s1
      Appended(s, newPrevious) ==
        IF newPrevious = Null THEN WithHead(WithTail(s, map, newNode), map, newNode)
        ELSE bindNodes(WithTail(s, map, newNode), map, newPrevious, newNode)
      Prepended(s, newNext) ==
        IF newNext = Null THEN WithTail(WithHead(s, map, newNode), map, newNode)
        ELSE bindNodes(WithHead(s, map, newNode), map, newNode, newNext)
      Counted(s) == WithLength(s, map, s.maps[map].length + 1)
      Linked(s2) ==
        IF hadExistentNodeForKey THEN s2
        ELSE IF ~prependMissing THEN Appended(Counted(s2), s2.maps[map].tail)
        ELSE Prepended(Counted(s2), s2.maps[map].head)
  IN Ret([Linked(Replaced(MakeAndStore(forkMap(st, this), map, key, value)))
            EXCEPT !.maps[map].change =
              ReplaceChange(oldKey, key, value, ~hadExistentNodeForKey, wasUpdated,
                            hadExistentNodeForKey, prependMissing)],
         map)

\* oldKey exists (node) and the item's value differs from the stored one.  The
\* neighbours of node are read through `this`, which fork and node creation
\* leave alone
ReplaceFound(st, this, node, oldKey, item, prependMissing) ==
  LET key == item.key
      value == item.value
      map == NextMap(st)
      newNode == NextNode(st)
      previous == findMapNodeByDirection(st, this, node, "previous")
      next == findMapNodeByDirection(st, this, node, "next")
      Finished(s, hadExistentNodeForKey) ==
        Ret([updateHeapMap(s, map, newNode) EXCEPT !.maps[map].change =
                ReplaceChange(oldKey, key, value, FALSE, TRUE, hadExistentNodeForKey,
                              prependMissing)],
            map)
      Linked(s) ==
        IF previous = Null
        THEN IF next = Null THEN WithTail(WithHead(s, map, newNode), map, newNode)
             ELSE bindNodes(WithHead(s, map, newNode), map, newNode, next)
        ELSE IF next = Null
        THEN bindNodes(WithTail(s, map, newNode), map, previous, newNode)
        ELSE bindNodes(bindNodes(s, map, previous, newNode), map, newNode, next)
      Shrunk(s) == WithLength(s, map, s.maps[map].length - 1)
      Merged(s2, existentNodeForKey) ==
        IF existentNodeForKey = Undefined THEN Finished(Linked(s2), FALSE)
        ELSE Finished(Shrunk(IF s2.nodes[existentNodeForKey].value # value
                             THEN ReplaceExistent(s2, this, map, existentNodeForKey,
                                                  newNode, node, previous, next)
                             ELSE s2),
                      TRUE)
      Orphaned(s2) ==
        Merged(s2, IF oldKey # key THEN lookup(s2, this, key) ELSE Undefined)
      Made(s1) ==
        Orphaned(IF oldKey # key
                 THEN addImmutableLinkedOrderedMapOrphanNode(s1, map, oldKey) ELSE s1)
      Forked(s0) ==
        Made(AddNode(s0, makeImmutableLinkedOrderedMapNode(s0, map, Null, Null, key, value)))
  IN Forked(forkMap(st, this))

\* ImmutableLinkedOrderedMap.prototype.replace
BaseReplace(st, this, oldKey, item, addMissing, prependMissing) ==
  LET Found(node) ==
        IF node = Undefined
        THEN IF addMissing THEN ReplaceAddMissing(st, this, oldKey, item, prependMissing)
             ELSE Ret(st, this)
        ELSE IF st.nodes[node].value # item.value
             THEN ReplaceFound(st, this, node, oldKey, item, prependMissing)
             ELSE Ret(st, this)
  IN Found(lookup(st, this, oldKey))

---------------------------------------------------------------------------
(* ImmutableLinkedOrderedMap.unsetKey, unset, empty *)

\* the repair of the chain of the forked map around the removed node; newNode
\* is the copy of the neighbour that becomes head or tail
UnsetRepair(st, this, map, node) ==
  LET newNode == NextNode(st)
      Shrunk(s) == WithLength(s, map, s.maps[map].length - 1)
      NewHead(s2, nextNext) ==
        Shrunk(IF nextNext = Null THEN WithTail(s2, map, newNode)
               ELSE bindNodes(s2, map, newNode, nextNext))
      NewTail(s2, previousPrevious) ==
        Shrunk(IF previousPrevious = Null THEN WithHead(s2, map, newNode)
               ELSE bindNodes(s2, map, previousPrevious, newNode))
      HeadGone(s2, next) ==
        NewHead(s2, findMapNodeByDirection(s2, this, next, "next"))
      TailGone(s2, previous) ==
        NewTail(s2, findMapNodeByDirection(s2, this, previous, "previous"))
      Around(previous, next) ==
        IF previous = Null
        THEN IF next = Null
             THEN WithLength(WithTail(WithHead(st, map, Null), map, Null), map, 0)
             ELSE HeadGone(WithHead(MakeAndStore(st, map, st.nodes[next].key,
                                                 st.nodes[next].value),
                                    map, newNode),
                           next)
        ELSE IF next = Null
        THEN TailGone(WithTail(MakeAndStore(st, map, st.nodes[previous].key,
                                            st.nodes[previous].value),
                               map, newNode),
                      previous)
        ELSE Shrunk(bindNodes(st, map, previous, next))
  IN Around(findMapNodeByDirection(st, this, node, "previous"),
            findMapNodeByDirection(st, this, node, "next"))

\* unsetKey without the repair of the chain: the fork only hides the key
unsetKeyUnrepaired(st, this, key) ==
  LET map == NextMap(st)
      Found(node) ==
        IF node = Undefined THEN Ret(st, this)
        ELSE Ret(addImmutableLinkedOrderedMapOrphanNode(forkMap(st, this), map, key),
                 map)
  IN Found(lookup(st, this, key))

\* ImmutableLinkedOrderedMap.prototype.unsetKey (no subclass overrides it)
unsetKey(st, this, key) ==
  LET map == NextMap(st)
      Found(node) ==
        IF node = Undefined THEN Ret(st, this)
        ELSE Ret([UnsetRepair(addImmutableLinkedOrderedMapOrphanNode(forkMap(st, this),
                                                                     map, key),
                              this, map, node)
                    EXCEPT !.maps[map].change =
                      [NoChange EXCEPT !.label = "unset", !.key = key,
                                       !.value = st.nodes[node].value]],
                 map)
  IN Found(lookup(st, this, key))

\* the fold of unset over an array of items; keys[i] is items[i][keyPropName]
RECURSIVE UnsetFold(_, _, _)
UnsetFold(r, keys, i) ==
  IF i > Len(keys) THEN r
  ELSE UnsetFold(unsetKey(r.st, r.ret, keys[i]), keys, i + 1)

\* ImmutableLinkedOrderedMap.prototype.unset.  arg = [kind, keys]: a key
\* ("key"), an item ("item") or an array of items ("array"), each item given
\* by the value of its key property
BaseUnset(st, this, arg) ==
  IF arg.kind = "array" THEN UnsetFold(Ret(st, this), arg.keys, 1)
  ELSE unsetKey(st, this, arg.keys[1])

\* an empty that forks the map, and so shares its heap, instead of making a
\* new map
BaseEmptyShared(st, this) ==
  LET map == NextMap(st)
  IN IF st.maps[this].length <= 0 THEN Ret(st, this)
     ELSE Ret([WithLength(WithTail(WithHead(forkMap(st, this), map, Null), map, Null),
                          map, 0)
                 EXCEPT !.maps[map].change = [NoChange EXCEPT !.label = "empty"]],
              map)

\* ImmutableLinkedOrderedMap.prototype.empty
BaseEmpty(st, this) ==
  LET map == NextMap(st)
  IN IF st.maps[this].length <= 0 THEN Ret(st, this)
     ELSE Ret([newImmutableLinkedOrderedMap(st, <<>>, st.maps[this].mode)
                 EXCEPT !.maps[map].length = 0,
                        !.maps[map].file = st.maps[this].file,
                        !.maps[map].depth = st.maps[this].depth + 1,
                        !.maps[map].ancestorMap = this,
                        !.maps[map].change = [NoChange EXCEPT !.label = "empty"]],
              map)

---------------------------------------------------------------------------
(* reads *)

\* ImmutableLinkedOrderedMap.prototype.get
BaseGet(st, this, key) ==
  LET node == lookup(st, this, key)
  IN IF node # Undefined THEN st.nodes[node].value ELSE Undefined

\* first() and last(): the element of head / tail, undefined on an empty map
\* (undefined is given as the element Hole, whose key and value are undefined)
BaseFirst(st, this) ==
  IF st.maps[this].head # Null THEN Element(st, st.maps[this].head) ELSE Hole

BaseLast(st, this) ==
  IF st.maps[this].tail # Null THEN Element(st, st.maps[this].tail) ELSE Hole

BaseIsEmpty(st, this) == st.maps[this].length <= 0

\* the nodes forEach visits from `current` on: while (current) { fn(...);
\* current = findMapNodeByDirection(this, current, direction) }.  The loop of
\* the source has no bound; the walk here gives up after `fuel` nodes, which
\* is more nodes than the store holds
RECURSIVE Walk(_, _, _, _, _)
Walk(st, this, current, direction, fuel) ==
  IF current = Null \/ fuel = 0 THEN <<>>
  ELSE <<current>> \o Walk(st, this,
                           findMapNodeByDirection(st, this, current, direction),
                           direction, fuel - 1)

ForEachNodes(st, this, reversed) ==
  Walk(st, this, IF reversed THEN st.maps[this].tail ELSE st.maps[this].head,
       IF reversed THEN "previous" ELSE "next", Len(st.nodes) + 1)

\* keysValues(reversed): new Array(this.length), then array[i] = {key, value}
\* for the i-th visited node
BaseKeysValues(st, this, reversed) ==
  LET visited == ForEachNodes(st, this, reversed)
      n == IF Len(visited) > st.maps[this].length
           THEN Len(visited) ELSE st.maps[this].length
  IN [i \in 1..n |-> IF i <= Len(visited) THEN Element(st, visited[i]) ELSE Hole]

BaseKeys(st, this, reversed) ==
  LET kv == BaseKeysValues(st, this, reversed)
  IN [i \in 1..Len(kv) |-> kv[i].key]

BaseValues(st, this, reversed) ==
  LET kv == BaseKeysValues(st, this, reversed)
  IN [i \in 1..Len(kv) |-> kv[i].value]

\* the nodes rangeBefore / rangeAfter collect: none when the key is not
\* found or maxNumberOfItems <= 0, else from the node of the key (or its
\* neighbour, when the item at the key is not included) up to maxNumberOfItems
\* nodes in the direction
RangeNodes(st, this, key, maxNumberOfItems, itemAtKeyIncluded, direction) ==
  LET node == lookup(st, this, key)
      From(current) == Walk(st, this, current, direction, maxNumberOfItems)
  IN IF node = Undefined \/ maxNumberOfItems <= 0 THEN <<>>
     ELSE From(IF itemAtKeyIncluded THEN node
               ELSE findMapNodeByDirection(st, this, node, direction))

\* maxNumberOfItems = Infinity: more nodes than the store holds
Infinity(st) == Len(st.nodes) + 1

BaseRangeAfter(st, this, key, maxNumberOfItems, itemAtKeyIncluded) ==
  LET range == RangeNodes(st, this, key, maxNumberOfItems, itemAtKeyIncluded, "next")
  IN [i \in 1..Len(range) |-> Element(st, range[i])]

\* range.reverse()
BaseRangeBefore(st, this, key, maxNumberOfItems, itemAtKeyIncluded) ==
  LET range == RangeNodes(st, this, key, maxNumberOfItems, itemAtKeyIncluded, "previous")
  IN [i \in 1..Len(range) |-> Element(st, range[Len(range) + 1 - i])]

\* ImmutableLinkedOrderedMap.prototype.reduce, with fn left open: the outcome
\* is the first accumulator and the entries fn is applied to, in their order.
\* hasInitialValue is arguments.length > 1; without it the accumulator is
\* (reversed ? this.last() : this.first()).value, a TypeError when that
\* element is undefined, and the first entry forEach visits is skipped
BaseReduce(st, this, hasInitialValue, initialValue, reversed) ==
  LET visited == ForEachNodes(st, this, reversed)
      end == IF reversed THEN BaseLast(st, this) ELSE BaseFirst(st, this)
      Calls(from) == [n \in 1..(Len(visited) - from + 1) |->
                        Element(st, visited[from + n - 1])]
  IN IF hasInitialValue THEN [threw |-> FALSE, acc |-> initialValue, calls |-> Calls(1)]
     ELSE IF st.maps[this].length = 0 \/ end = Hole
     THEN [threw |-> TRUE, acc |-> Undefined, calls |-> <<>>]
     ELSE [threw |-> FALSE, acc |-> end.value, calls |-> Calls(2)]

---------------------------------------------------------------------------
(* the mode classes and their gates *)

MutationMethods == {"set", "replace", "unset", "unsetKey", "empty"}

ReadMethods == {"get", "first", "last", "isEmpty", "forEach", "break", "values", "keys",
                "keysValues", "map", "reduce", "filter", "every", "some",
                "rangeBefore", "rangeAfter"}

\* the methods SingleModeImmutableLinkedOrderedMap overrides with its gate
SingleModeImmutableLinkedOrderedMap == {"set", "replace", "unset", "empty"}

\* MultiwayModeImmutableLinkedOrderedMap overrides no method
MultiwayModeImmutableLinkedOrderedMap == {}

\* the methods LightweightModeImmutableLinkedOrderedMap overrides with its gate
LightweightModeImmutableLinkedOrderedMap ==
  {"set", "replace", "unset", "empty", "get", "first", "last", "isEmpty", "forEach",
   "break", "values", "keys", "keysValues", "map", "reduce", "filter", "every", "some"}

GatedMethods(mode) ==
  CASE mode = SINGLE -> SingleModeImmutableLinkedOrderedMap
    [] mode = MULTIWAY -> MultiwayModeImmutableLinkedOrderedMap
    [] mode = LIGHTWEIGHT -> LightweightModeImmutableLinkedOrderedMap

\* this.mutationOperationOccurred && throw...(operation)
GateThrows(st, this, method) ==
  /\ method \in GatedMethods(st.maps[this].mode)
  /\ st.maps[this].mutationOperationOccurred

\* reduce as the class of `this` runs it; given: the caller passed an
\* initialValue.  LightweightModeImmutableLinkedOrderedMap.reduce hands its
\* three parameters on, so that the base method always has arguments.length 3
Reduce(st, this, given, initialValue, reversed) ==
  IF st.maps[this].mode = LIGHTWEIGHT
  THEN IF GateThrows(st, this, "reduce")
       THEN [threw |-> TRUE, acc |-> Undefined, calls |-> <<>>]
       ELSE BaseReduce(st, this, TRUE, IF given THEN initialValue ELSE Undefined, reversed)
  ELSE BaseReduce(st, this, given, initialValue, reversed)

\* the flag set by every call of a gated method that did not throw
FlagAlways(st, this, method, r) ==
  IF method \in GatedMethods(st.maps[this].mode)
  THEN [r EXCEPT !.st.maps[this].mutationOperationOccurred = TRUE]
  ELSE r

\* if (this !== map) this.mutationOperationOccurred = true
FlagMutated(st, this, method, r) ==
  IF method \in GatedMethods(st.maps[this].mode) /\ r.ret # this
  THEN [r EXCEPT !.st.maps[this].mutationOperationOccurred = TRUE]
  ELSE r

\* a public mutation method that runs the base method first and its gate
\* after it
CallMutationGatedLate(st, this, method, super_) ==
  IF GateThrows(st, this, method) THEN Threw(super_.st)
  ELSE FlagMutated(st, this, method, super_)

\* a public mutation method as the class of `this` runs it: the gate, then
\* the base method, whose outcome is super_, then the flag
CallMutation(st, this, method, super_) ==
  IF GateThrows(st, this, method) THEN Threw(st)
  ELSE FlagMutated(st, this, method, super_)

\* the arguments of a call: [items, prependMissing, oldKey, item, addMissing, arg]

NoArgs == [items |-> <<>>, prependMissing |-> FALSE, oldKey |-> Undefined,
           item |-> [key |-> Undefined, value |-> Undefined], addMissing |-> FALSE,
           arg |-> [kind |-> "key", keys |-> <<>>]]

---------------------------------------------------------------------------
(* what a map shows *)

\* everything the reads of map m return
View(st, m) ==
  [get |-> [k \in Keys |-> BaseGet(st, m, k)],
   length |-> st.maps[m].length,
   first |-> BaseFirst(st, m),
   last |-> BaseLast(st, m),
   forward |-> BaseKeysValues(st, m, FALSE),
   reverse |-> BaseKeysValues(st, m, TRUE)]

Reverse(s) == [i \in 1..Len(s) |-> s[Len(s) + 1 - i]]

---------------------------------------------------------------------------
(* the state machine *)

Store == [nodes |-> nodes, heaps |-> heaps, maps |-> maps]

\* what map m shows now
Shows(m) == View(Store, m)

SeqsUpTo(S, n) == UNION {[1..k -> S] : k \in 0..n}

SetArgs(items, prependMissing) ==
  [NoArgs EXCEPT !.items = items, !.prependMissing = prependMissing]

ReplaceArgs(oldKey, item, addMissing, prependMissing) ==
  [NoArgs EXCEPT !.oldKey = oldKey, !.item = item, !.addMissing = addMissing,
                 !.prependMissing = prependMissing]

UnsetArgs(arg) == [NoArgs EXCEPT !.arg = arg]

\* the items the client passes in with a call: the initial items of the
\* factory, the items of set, the item of replace
Given(method, args) ==
  CASE method \in {"new", "set"} -> {args.items[i] : i \in 1..Len(args.items)}
    [] method = "replace" -> {args.item}
    [] OTHER -> {}

\* the state after new ImmutableLinkedOrderedMap({initialItems, mode}): the
\* stores hold the one map, which the client holds
\* the same after the entry file's new ImmutableLinkedOrderedMap({initialItems, mode})
ConstructedEntry(mode, initialItems) ==
  LET st0 == [nodes |-> <<>>, heaps |-> <<>>, maps |-> <<>>]
      st1 == newImmutableLinkedOrderedMapEntry(st0, initialItems, mode)
  IN /\ nodes = st1.nodes
     /\ heaps = st1.heaps
     /\ maps = st1.maps
     /\ returned = {NextMap(st0)}
     /\ shown = [m \in {NextMap(st0)} |-> View(st1, m)]
     /\ origin = [m \in {NextMap(st0)} |->
                    [by |-> Null, given |-> Given("new", SetArgs(initialItems, FALSE)),
                     afterNoOp |-> FALSE,
                     method |-> "new", args |-> SetArgs(initialItems, FALSE)]]
     /\ idle = {}
     /\ last = [op |-> "new", on |-> Null, ret |-> NextMap(st0),
                args |-> SetArgs(initialItems, FALSE), before |-> View(st1, NextMap(st0))]

Constructed(mode, initialItems) ==
  LET st0 == [nodes |-> <<>>, heaps |-> <<>>, maps |-> <<>>]
      Made_(st1) ==
        /\ nodes = st1.nodes
        /\ heaps = st1.heaps
        /\ maps = st1.maps
        /\ returned = {NextMap(st0)}
        /\ shown = [m \in {NextMap(st0)} |-> View(st1, m)]
        /\ origin = [m \in {NextMap(st0)} |->
                       [by |-> Null, given |-> Given("new", SetArgs(initialItems, FALSE)),
                        afterNoOp |-> FALSE,
                        method |-> "new", args |-> SetArgs(initialItems, FALSE)]]
        /\ idle = {}
        /\ last = [op |-> "new", on |-> Null, ret |-> NextMap(st0),
                   args |-> SetArgs(initialItems, FALSE), before |-> View(st1, NextMap(st0))]
  IN Made_(newImmutableLinkedOrderedMap(st0, initialItems, mode))

\* the outcome r of the call this.method(args) becomes the state.  A call that
\* throws or returns `this` hands the client no new map and is not recorded in
\* last; when noting, idle takes the map a mutation call has returned itself
Commit(limit, noting, r, this, method, args) ==
  /\ Len(r.st.maps) <= limit
  /\ nodes' = r.st.nodes
  /\ heaps' = r.st.heaps
  /\ maps' = r.st.maps
  /\ returned' = IF r.threw THEN returned ELSE returned \cup {r.ret}
  /\ shown' = IF r.threw \/ r.ret \in returned THEN shown
              ELSE [m \in returned \cup {r.ret} |->
                      IF m \in returned THEN shown[m] ELSE View(r.st, m)]
  /\ origin' = IF r.threw \/ r.ret \in returned THEN origin
               ELSE [m \in returned \cup {r.ret} |->
                       IF m \in returned THEN origin[m]
                       ELSE [by |-> this, given |-> Given(method, args),
                             afterNoOp |-> this \in idle,
                             method |-> method, args |-> args]]
  /\ idle' = IF noting /\ ~r.threw /\ r.ret = this THEN idle \cup {this} ELSE idle
  /\ last' = IF r.threw \/ r.ret = this THEN last
             ELSE [op |-> method, on |-> this, ret |-> r.ret, args |-> args,
                   before |-> Shows(this)]

\* a public mutation method called on a map the client holds, while the
\* stores hold fewer than `limit` maps; super_ is the outcome of the base method
Mutate(limit, noting, this, method, args, super_) ==
  /\ this \in returned
  /\ Len(maps) < limit
  /\ Commit(limit, noting, CallMutation(Store, this, method, super_), this, method, args)

Set(limit, noting, this, items, prependMissing) ==
  Mutate(limit, noting, this, "set", SetArgs(items, prependMissing),
         BaseSet(Store, this, items, prependMissing))

Replace(limit, noting, this, oldKey, item, addMissing, prependMissing) ==
  Mutate(limit, noting, this, "replace", ReplaceArgs(oldKey, item, addMissing, prependMissing),
         BaseReplace(Store, this, oldKey, item, addMissing, prependMissing))

Unset(limit, noting, this, arg) ==
  Mutate(limit, noting, this, "unset", UnsetArgs(arg), BaseUnset(Store, this, arg))

UnsetKey(limit, noting, this, key) ==
  Mutate(limit, noting, this, "unsetKey", UnsetArgs([kind |-> "key", keys |-> <<key>>]),
         unsetKey(Store, this, key))

\* unset(key) of the entry file, whose unset takes a key only: the body the
\* bundle names unsetKey, behind the gate of unset
UnsetEntry(limit, noting, this, key) ==
  Mutate(limit, noting, this, "unset", UnsetArgs([kind |-> "key", keys |-> <<key>>]),
         unsetKey(Store, this, key))

Empty(limit, noting, this) == Mutate(limit, noting, this, "empty", NoArgs, BaseEmpty(Store, this))

---------------------------------------------------------------------------
(* the inputs *)

InitialArrays == SeqsUpTo(Items, MaxInit)

SetArrays == SeqsUpTo(Items, MaxItems) \ {<<>>}

OneItemArrays == {<<item>> : item \in Items}

KeyArgs == {[kind |-> "key", keys |-> <<k>>] : k \in Keys}

UnsetArguments ==
  KeyArgs \cup {[kind |-> "item", keys |-> <<k>>] : k \in Keys}
    \cup {[kind |-> "array", keys |-> ks] : ks \in SeqsUpTo(Keys, MaxItems)}

\* <<addMissing, prependMissing>> (prependMissing is read only under addMissing)
ReplaceFlags == {<<FALSE, FALSE>>, <<TRUE, FALSE>>, <<TRUE, TRUE>>}

---------------------------------------------------------------------------
(* Spec: a map of any mode built from any initial array, then one call of any
   mutation method with any argument *)

Init == \E mode \in Modes, initialItems \in InitialArrays : Constructed(mode, initialItems)

Next ==
  \/ Len(maps) < MaxMaps /\ \E this \in returned, items \in SetArrays, prependMissing \in BOOLEAN :
        Set(MaxMaps, TRUE, this, items, prependMissing)
  \/ Len(maps) < MaxMaps /\ \E this \in returned, oldKey \in Keys, item \in Items, f \in ReplaceFlags :
        Replace(MaxMaps, TRUE, this, oldKey, item, f[1], f[2])
  \/ Len(maps) < MaxMaps /\ \E this \in returned, arg \in UnsetArguments :
        Unset(MaxMaps, TRUE, this, arg)
  \/ Len(maps) < MaxMaps /\ \E this \in returned, key \in Keys :
        UnsetKey(MaxMaps, TRUE, this, key)
  \/ Len(maps) < MaxMaps /\ \E this \in returned :
        Empty(MaxMaps, TRUE, this)

Spec == Init /\ [][Next]_vars

---------------------------------------------------------------------------
(* SpecChain: a map of any mode, then a history of calls, each with one item
   or one key, on any of the maps the client holds *)

ChainInitialArrays ==
  {a \in InitialArrays : \A i \in 1..Len(a) : a[i].value = 1}

InitChain ==
  \E mode \in Modes, initialItems \in ChainInitialArrays : Constructed(mode, initialItems)

NextChain ==
  \/ Len(maps) < MaxChainMaps /\ \E this \in returned, items \in OneItemArrays, prependMissing \in BOOLEAN :
        Set(MaxChainMaps, FALSE, this, items, prependMissing)
  \/ Len(maps) < MaxChainMaps /\ \E this \in returned, oldKey \in Keys, item \in Items, f \in ReplaceFlags :
        Replace(MaxChainMaps, FALSE, this, oldKey, item, f[1], f[2])
  \/ Len(maps) < MaxChainMaps /\ \E this \in returned, arg \in KeyArgs :
        Unset(MaxChainMaps, FALSE, this, arg)
  \/ Len(maps) < MaxChainMaps /\ \E this \in returned, key \in Keys :
        UnsetKey(MaxChainMaps, FALSE, this, key)
  \/ Len(maps) < MaxChainMaps /\ \E this \in returned :
        Empty(MaxChainMaps, FALSE, this)

SpecChain == InitChain /\ [][NextChain]_vars

---------------------------------------------------------------------------
(* SpecBranch: an empty multiway map, then a tree of maps grown by setting one
   item or unsetting one key on any map of the tree *)

InitBranch == Constructed(MULTIWAY, <<>>)

NextBranch ==
  \/ Len(maps) < MaxBranchMaps /\ \E this \in returned, items \in OneItemArrays :
        Set(MaxBranchMaps, FALSE, this, items, FALSE)
  \/ Len(maps) < MaxBranchMaps /\ \E this \in returned, arg \in KeyArgs :
        Unset(MaxBranchMaps, FALSE, this, arg)

SpecBranch == InitBranch /\ [][NextBranch]_vars

---------------------------------------------------------------------------
(* SpecEmpty: a map of any mode, then a history of empty, set of one item and
   unset of one key on any of the maps the client holds *)

InitEmpty ==
  \E mode \in Modes, initialItems \in ChainInitialArrays : Constructed(mode, initialItems)

NextEmpty ==
  \/ Len(maps) < MaxEmptyMaps /\ \E this \in returned :
        Empty(MaxEmptyMaps, FALSE, this)
  \/ Len(maps) < MaxEmptyMaps /\ \E this \in returned, items \in OneItemArrays :
        Set(MaxEmptyMaps, FALSE, this, items, FALSE)
  \/ Len(maps) < MaxEmptyMaps /\ \E this \in returned, arg \in KeyArgs :
        Unset(MaxEmptyMaps, FALSE, this, arg)

SpecEmpty == InitEmpty /\ [][NextEmpty]_vars

---------------------------------------------------------------------------
(* SpecFork: an empty multiway map forked again and again: every call sets one
   item or unsets its key, on the root or on the map returned last, so that
   the root gets ten children and more, and children get children *)

ForkItem == [key |-> 1, value |-> 1]

InitFork == Constructed(MULTIWAY, <<>>)

NextFork ==
  \/ Len(maps) < MaxForkMaps /\ \E this \in {1, last.ret} :
        Set(MaxForkMaps, FALSE, this, <<ForkItem>>, FALSE)
  \/ Len(maps) < MaxForkMaps /\ \E this \in {1, last.ret} :
        Unset(MaxForkMaps, FALSE, this, [kind |-> "key", keys |-> <<ForkItem.key>>])

SpecFork == InitFork /\ [][NextFork]_vars

---------------------------------------------------------------------------
(* SpecEntry: a map of the entry file in any mode, then set of one item and
   unset of a key on any of the maps the client holds *)

InitEntry ==
  \E mode \in Modes, initialItems \in ChainInitialArrays : ConstructedEntry(mode, initialItems)

NextEntry ==
  \/ Len(maps) < MaxEntryMaps /\ \E this \in returned, items \in OneItemArrays :
        Set(MaxEntryMaps, FALSE, this, items, FALSE)
  \/ Len(maps) < MaxEntryMaps /\ \E this \in returned, key \in Keys :
        UnsetEntry(MaxEntryMaps, FALSE, this, key)

SpecEntry == InitEntry /\ [][NextEntry]_vars

---------------------------------------------------------------------------
(* SpecEntryFork: SpecFork on an empty multiway map of the entry file, the root
   also forked by set of an item of a second key *)

EntryForkItem == [key |-> 2, value |-> 1]

InitEntryFork == ConstructedEntry(MULTIWAY, <<>>)

NextEntryFork ==
  \/ Len(maps) < MaxEntryForkMaps /\ \E this \in {1, last.ret} :
        Set(MaxEntryForkMaps, FALSE, this, <<ForkItem>>, FALSE)
  \/ Len(maps) < MaxEntryForkMaps /\ \E this \in {1, last.ret} :
        UnsetEntry(MaxEntryForkMaps, FALSE, this, ForkItem.key)
  \/ Len(maps) < MaxEntryForkMaps /\
        Set(MaxEntryForkMaps, FALSE, 1, <<EntryForkItem>>, FALSE)

SpecEntryFork == InitEntryFork /\ [][NextEntryFork]_vars

---------------------------------------------------------------------------
(* SpecDepth: a map of any mode, then set of one item, replace, unset of a key,
   of an item or of an array of items, and empty, on any of the maps the
   client holds *)

InitDepth ==
  \E mode \in Modes, initialItems \in ChainInitialArrays : Constructed(mode, initialItems)

NextDepth ==
  \/ Len(maps) < MaxDepthMaps /\ \E this \in returned, items \in OneItemArrays :
        Set(MaxDepthMaps, FALSE, this, items, FALSE)
  \/ Len(maps) < MaxDepthMaps /\ \E this \in returned, oldKey \in Keys, item \in Items, f \in ReplaceFlags :
        Replace(MaxDepthMaps, FALSE, this, oldKey, item, f[1], f[2])
  \/ Len(maps) < MaxDepthMaps /\ \E this \in returned, arg \in UnsetArguments :
        Unset(MaxDepthMaps, FALSE, this, arg)
  \/ Len(maps) < MaxDepthMaps /\ \E this \in returned :
        Empty(MaxDepthMaps, FALSE, this)

SpecDepth == InitDepth /\ [][NextDepth]_vars

---------------------------------------------------------------------------
(* claims *)

\* the map can be read: none of its reads is behind a gate that throws
Readable(m) == \A method \in ReadMethods : ~GateThrows(Store, m, method)

\* the entries of a sequence of entries
Range(seq) == {seq[i] : i \in 1..Len(seq)}

\* C1: in single and multiway modes every map handed to the client shows,
\* after any later calls, what it showed when it was handed over: get of every
\* key, length, first, last, and keysValues forward and reversed
C1_Frame ==
  \A m \in returned : maps[m].mode \in {SINGLE, MULTIWAY} => Shows(m) = shown[m]

\* C2: the map R = M.set(item) returns the value of the item for its key
C2_SetThenGet ==
  (last.op = "set" /\ Len(last.args.items) = 1)
    => BaseGet(Store, last.ret, last.args.items[1].key) = last.args.items[1].value

\* the reference list model of set: the entries of `before` keep their places
\* and take the value given for their key, the entries of `chosen` with an
\* absent key go after the last entry, or before the first when prependMissing
RefSet(before, chosen, prependMissing) ==
  LET present == {before[i].key : i \in 1..Len(before)}
      ValueFor(e) == IF \E j \in 1..Len(chosen) : chosen[j].key = e.key
                     THEN [key |-> e.key,
                           value |-> chosen[CHOOSE j \in 1..Len(chosen) :
                                              chosen[j].key = e.key].value]
                     ELSE e
      updated == [i \in 1..Len(before) |-> ValueFor(before[i])]
      IsAbsent(e) == e.key \notin present
      absent == SelectSeq(chosen, IsAbsent)
  IN [list |-> IF prependMissing THEN absent \o updated ELSE updated \o absent,
      grown |-> Len(absent)]

\* the ways to keep one entry for each key of items, in the order of items
RECURSIVE Pick(_, _, _)
Pick(items, I, i) ==
  IF i > Len(items) THEN <<>>
  ELSE (IF i \in I THEN <<items[i]>> ELSE <<>>) \o Pick(items, I, i + 1)

Selections(items) ==
  {Pick(items, I, 1) : I \in {J \in SUBSET (1..Len(items)) :
      /\ \A i \in 1..Len(items) : \E j \in J : items[j].key = items[i].key
      /\ \A i, j \in J : items[i].key = items[j].key => i = j}}

\* C3: the map M.set(items, prependMissing) returns lists the entries of the
\* reference model and is longer than M by the number of distinct absent keys
C3_SetReference ==
  last.op = "set" =>
    \E chosen \in Selections(last.args.items) :
      LET ref == RefSet(last.before.forward, chosen, last.args.prependMissing)
      IN /\ BaseKeysValues(Store, last.ret, FALSE) = ref.list
         /\ maps[last.ret].length = last.before.length + ref.grown

\* C4: the forward traversal of every map visits exactly length entries and
\* ends at the tail
C4_TraversalLength ==
  \A m \in returned : Readable(m) =>
    LET visited == ForEachNodes(Store, m, FALSE)
    IN /\ Len(visited) = maps[m].length
       /\ Len(visited) > 0 => visited[Len(visited)] = maps[m].tail
       /\ Len(BaseKeysValues(Store, m, FALSE)) = maps[m].length

\* C5: no key appears twice in the keys of a map
C5_DistinctKeys ==
  \A m \in returned : Readable(m) =>
    LET keys == BaseKeys(Store, m, FALSE)
    IN \A i, j \in 1..Len(keys) : keys[i] = keys[j] => i = j

\* C6: keysValues reversed is the reverse of keysValues forward
C6_ReverseIsReverse ==
  \A m \in returned : Readable(m) =>
    BaseKeysValues(Store, m, TRUE) = Reverse(BaseKeysValues(Store, m, FALSE))

\* the maps a map descends from, itself included
RECURSIVE Lineage(_)
Lineage(m) ==
  IF m = Null THEN {} ELSE {m} \cup Lineage(maps[m].ancestorMap)

\* the items the client passed in along the chain of calls that made the map
GivenOnChain(m) ==
  UNION {origin[x].given : x \in Lineage(m) \cap returned}

\* the entries the reads of a map return: get, first, last, traversal, ranges
Entries(m) ==
  LET view == Shows(m)
  IN ({[key |-> k, value |-> view.get[k]] : k \in Keys}
      \cup {view.first, view.last}
      \cup Range(view.forward) \cup Range(view.reverse)
      \cup UNION {Range(BaseRangeBefore(Store, m, k, Infinity(Store), TRUE))
                    \cup Range(BaseRangeAfter(Store, m, k, Infinity(Store), TRUE))
                  : k \in Keys})
     \ ({Hole} \cup {[key |-> k, value |-> Undefined] : k \in Keys})

\* C7: every entry a read of a multiway map returns was passed in along the
\* chain of calls that made the map, never only on another branch
C7_BranchIsolation ==
  \A m \in returned : maps[m].mode = MULTIWAY => Entries(m) \subseteq GivenOnChain(m)

\* two multiway branches hold different values for one key: a map reads its
\* own value for a key that a map of another branch was given another value for
C7_BranchesDiffer ==
  \E a, b \in returned :
    /\ maps[a].mode = MULTIWAY
    /\ a \notin Lineage(b) /\ b \notin Lineage(a)
    /\ \E e \in origin[b].given :
         /\ e \notin GivenOnChain(a)
         /\ BaseGet(Store, a, e.key) \notin {Undefined, e.value}

\* the call before was M.unset(k) for one key k that M had
UnsetOfPresentKey ==
  /\ last.op = "unset"
  /\ last.args.arg.kind \in {"key", "item"}
  /\ last.before.get[last.args.arg.keys[1]] # Undefined

\* C8: after R = M.unset(k) for a key k of M, R.get(k) is undefined and
\* M.get(k), where M can still be read, is what it was; in multiway mode a
\* sibling S = M.set({k: v2}) has S.get(k) = v2
C8_UnsetThenGet ==
  UnsetOfPresentKey =>
    LET k == last.args.arg.keys[1]
    IN /\ BaseGet(Store, last.ret, k) = Undefined
       /\ Readable(last.on) => BaseGet(Store, last.on, k) = last.before.get[k]
       /\ maps[last.on].mode = MULTIWAY =>
            \A v2 \in Values :
              LET r == CallMutation(Store, last.on, "set",
                                    BaseSet(Store, last.on, <<[key |-> k, value |-> v2]>>, FALSE))
              IN ~r.threw /\ BaseGet(r.st, r.ret, k) = v2

\* a mutation on the map has returned a different map
Mutated(m) == \E r \in returned : r # m /\ origin[r].by = m

\* C9: once a mutation on a single-mode map has returned a different map,
\* set, replace, unset and empty on it throw, every read succeeds and the
\* reads return what they returned before
C9_SingleGate ==
  \A m \in returned : (maps[m].mode = SINGLE /\ Mutated(m)) =>
    /\ \A method \in {"set", "replace", "unset", "empty"} : GateThrows(Store, m, method)
    /\ Readable(m)
    /\ Shows(m) = shown[m]

\* C10: once a mutation on a lightweight-mode map has returned a different
\* map, every mutation and every read on it throws
C10_LightweightGate ==
  \A m \in returned : (maps[m].mode = LIGHTWEIGHT /\ Mutated(m)) =>
    \A method \in MutationMethods \cup ReadMethods : GateThrows(Store, m, method)

\* C11: in single and lightweight modes the flag of a map is set only when a
\* mutation call on it has returned a different map; a map on which mutation
\* calls have returned the map itself, and no other, has no method that throws
C11_GateOnlyWhenMutated ==
  \A m \in returned : maps[m].mode \in {SINGLE, LIGHTWEIGHT} =>
    /\ maps[m].mutationOperationOccurred => Mutated(m)
    /\ (m \in idle /\ ~Mutated(m)) =>
         \A method \in MutationMethods \cup ReadMethods : ~GateThrows(Store, m, method)

\* a gated mutation on a single or lightweight map returned a new map after a
\* mutation call on that map had returned the map itself
C11_EffectiveAfterNoOp ==
  \E r \in returned :
    /\ origin[r].by # Null
    /\ origin[r].afterNoOp
    /\ maps[origin[r].by].mode \in {SINGLE, LIGHTWEIGHT}
    /\ maps[origin[r].by].mutationOperationOccurred

\* the keys of the items are pairwise distinct
DistinctKeys(items) ==
  \A i, j \in 1..Len(items) : items[i].key = items[j].key => i = j

\* C12: M.set(items), for items of pairwise distinct keys, returns M itself
\* exactly when M holds, for every item, the key of the item with the
\* identical value; and for R = M.set(items), R.set(items) returns R
C12_SetReturnsThis ==
  /\ \A m \in returned, items \in SetArrays :
        (~GateThrows(Store, m, "set") /\ DistinctKeys(items)) =>
          ((BaseSet(Store, m, items, FALSE).ret = m)
             <=> (\A i \in 1..Len(items) : BaseGet(Store, m, items[i].key) = items[i].value))
  /\ last.op = "set" =>
        LET r == CallMutation(Store, last.ret, "set",
                              BaseSet(Store, last.ret, last.args.items,
                                      last.args.prependMissing))
        IN ~r.threw /\ r.ret = last.ret

\* a list of entries without the entries of key k
Without(list, k) ==
  LET Other(e) == e.key # k IN SelectSeq(list, Other)

\* the ends of a list of entries, undefined for the empty list
FirstOf(list) == IF Len(list) = 0 THEN Hole ELSE list[1]
LastOf(list) == IF Len(list) = 0 THEN Hole ELSE list[Len(list)]

\* the number of entries of key k in a list of entries
Count(list, k) == Cardinality({i \in 1..Len(list) : list[i].key = k})

\* the last call was the first call on its map that returned another map
FirstMutation ==
  \A r \in returned : origin[r].by = last.on => r = last.ret

Renamed(keys, oldKey, k) ==
  [i \in 1..Len(keys) |-> IF keys[i] = oldKey THEN k ELSE keys[i]]

\* C14: for oldKey in M and an item whose key k differs from oldKey and is
\* not in M, R = M.replace(oldKey, item) has the keys of M with k in the place
\* of oldKey, R.get(oldKey) undefined, R.get(k) the value of the item, and
\* the length of M
C14_ReplaceRenames ==
  \A m \in returned, oldKey \in Keys, item \in Items, flags \in ReplaceFlags :
    (/\ ~GateThrows(Store, m, "replace")
     /\ BaseGet(Store, m, oldKey) # Undefined
     /\ item.key # oldKey
     /\ BaseGet(Store, m, item.key) = Undefined) =>
      LET r == BaseReplace(Store, m, oldKey, item, flags[1], flags[2])
      IN /\ BaseKeys(r.st, r.ret, FALSE) = Renamed(BaseKeys(Store, m, FALSE), oldKey, item.key)
         /\ BaseGet(r.st, r.ret, oldKey) = Undefined
         /\ BaseGet(r.st, r.ret, item.key) = item.value
         /\ r.st.maps[r.ret].length = maps[m].length

\* a list of keys without key k
KeysWithout(keys, k) ==
  LET Other(x) == x # k IN SelectSeq(keys, Other)

\* C15: for oldKey in M and an item whose key k differs from oldKey and is in
\* M, R = M.replace(oldKey, item) lists the keys of M without oldKey, holds the
\* value of the item for k, and is shorter than M by one
C15_ReplaceMerges ==
  \A m \in returned, oldKey \in Keys, item \in Items, flags \in ReplaceFlags :
    (/\ ~GateThrows(Store, m, "replace")
     /\ BaseGet(Store, m, oldKey) # Undefined
     /\ item.key # oldKey
     /\ BaseGet(Store, m, item.key) # Undefined) =>
      LET r == BaseReplace(Store, m, oldKey, item, flags[1], flags[2])
      IN /\ BaseKeys(r.st, r.ret, FALSE) = KeysWithout(BaseKeys(Store, m, FALSE), oldKey)
         /\ BaseGet(r.st, r.ret, item.key) = item.value
         /\ r.st.maps[r.ret].length = maps[m].length - 1

\* C16: for oldKey in M, M.replace(oldKey, item) returns M itself exactly when
\* the key of the item is oldKey and its value is the stored one; otherwise it
\* returns a new map, which (the key of the item not being another key of M)
\* lists the key of the item in the place of oldKey
C16_ReplaceReturnsThis ==
  \A m \in returned, oldKey \in Keys, item \in Items, flags \in ReplaceFlags :
    (/\ ~GateThrows(Store, m, "replace")
     /\ BaseGet(Store, m, oldKey) # Undefined) =>
      LET r == BaseReplace(Store, m, oldKey, item, flags[1], flags[2])
      IN /\ (r.ret = m) <=>
              (item.key = oldKey /\ BaseGet(Store, m, oldKey) = item.value)
         /\ (r.ret # m /\ (item.key = oldKey \/ BaseGet(Store, m, item.key) = Undefined)) =>
              BaseKeys(r.st, r.ret, FALSE) = Renamed(BaseKeys(Store, m, FALSE), oldKey, item.key)

\* C17: for oldKey not in M and an item whose key k is in M with another
\* value, R = M.replace(oldKey, item, true) lists the keys of M, has the length
\* of M, and holds the value of the item for k
C17_AddMissingUpdates ==
  \A m \in returned, oldKey \in Keys, item \in Items, prependMissing \in BOOLEAN :
    (/\ ~GateThrows(Store, m, "replace")
     /\ BaseGet(Store, m, oldKey) = Undefined
     /\ BaseGet(Store, m, item.key) # Undefined
     /\ BaseGet(Store, m, item.key) # item.value) =>
      LET r == BaseReplace(Store, m, oldKey, item, TRUE, prependMissing)
      IN /\ BaseKeys(r.st, r.ret, FALSE) = BaseKeys(Store, m, FALSE)
         /\ r.st.maps[r.ret].length = maps[m].length
         /\ BaseGet(r.st, r.ret, item.key) = item.value

\* C18: for oldKey not in M, M.replace(oldKey, item, addMissing) returns M
\* itself, and leaves the store as it is, when addMissing is false, and when
\* addMissing is true and M holds the key of the item with the identical value
C18_MissingNoOp ==
  \A m \in returned, oldKey \in Keys, item \in Items, flags \in ReplaceFlags :
    (/\ ~GateThrows(Store, m, "replace")
     /\ BaseGet(Store, m, oldKey) = Undefined
     /\ ~flags[1] \/ BaseGet(Store, m, item.key) = item.value) =>
      LET r == CallMutation(Store, m, "replace",
                            BaseReplace(Store, m, oldKey, item, flags[1], flags[2]))
      IN r.ret = m /\ r.st = Store

\* what a map without entries shows
EmptyView ==
  [get |-> [k \in Keys |-> Undefined], length |-> 0, first |-> Hole, last |-> Hole,
   forward |-> <<>>, reverse |-> <<>>]

\* every map the client holds is an ancestor of e, e itself, or a descendant
\* of e: every call that returned a new map since e was made was a call on e
\* or on a descendant of e
OnTrunk(e) == \A x \in returned : x \in Lineage(e) \/ e \in Lineage(x)

FirstIndex(items, k) ==
  CHOOSE i \in 1..Len(items) :
    items[i].key = k /\ \A j \in 1..(i - 1) : items[j].key # k
LastIndex(items, k) ==
  CHOOSE i \in 1..Len(items) :
    items[i].key = k /\ \A j \in (i + 1)..Len(items) : items[j].key # k

\* the arrays of items with one key more than once
DuplicateArrays == {items \in SetArrays : ~DistinctKeys(items)}

\* the map has no descendant and every other map is one of its ancestors
Newest(m) == ~Mutated(m) /\ OnTrunk(m)

\* for the newest map M of a chain of maps and items with one key more than
\* once, the result of M.set(items) holds, for the key of every item, the
\* value of the item that Index picks among the items of that key
SetHolds(Index(_, _)) ==
  \A m \in returned, items \in DuplicateArrays, prependMissing \in BOOLEAN :
    (~GateThrows(Store, m, "set") /\ Newest(m)) =>
      LET r == BaseSet(Store, m, items, prependMissing)
      IN \A i \in 1..Len(items) :
           BaseGet(r.st, r.ret, items[i].key) = items[Index(items, items[i].key)].value

WellFormedView(v) ==
  /\ v.length = Len(v.forward)
  /\ \A i, j \in 1..Len(v.forward) : v.forward[i].key = v.forward[j].key => i = j
  /\ v.reverse = Reverse(v.forward)
  /\ \A k \in Keys :
        IF \E i \in 1..Len(v.forward) : v.forward[i].key = k
        THEN \E i \in 1..Len(v.forward) :
               v.forward[i].key = k /\ v.forward[i].value = v.get[k]
        ELSE v.get[k] = Undefined

\* the keys of a list of entries
KeysOf(list) == [i \in 1..Len(list) |-> list[i].key]

\* the list of keys has no key twice and follows the order of the keys in `order`
OrderedAs(keys, order) ==
  \A i, j \in 1..Len(keys) : i < j =>
    \E a, b \in 1..Len(order) : a < b /\ order[a] = keys[i] /\ order[b] = keys[j]

\* C21: in the change of R = M.set(items, prependMissing), inserted holds
\* exactly the keys of the items that M lacks, updated exactly the keys that M
\* holds with another value, and both lists follow the order of R.keys()
C21_SetChange ==
  (last.op = "set" /\ WellFormedView(last.before)) =>
    LET items == last.args.items
        Wins(k) == items[LastIndex(items, k)].value
        given == {items[i].key : i \in 1..Len(items)}
        change == maps[last.ret].change
        inserted == KeysOf(change.inserted)
        updated == KeysOf(change.updated)
        order == BaseKeys(Store, last.ret, FALSE)
    IN /\ change.label = "set"
       /\ Range(inserted) = {k \in given : last.before.get[k] = Undefined}
       /\ Range(updated) = {k \in given : last.before.get[k] \notin {Undefined, Wins(k)}}
       /\ OrderedAs(inserted, order)
       /\ OrderedAs(updated, order)

\* the values of maxNumberOfItems tried: none, negative, small, and Infinity
Maxima == {-1, 0, 1, 2, Infinity(Store)}

\* the entries of the list from place a to place b
Slice(list, a, b) == [i \in 1..(b - a + 1) |-> list[a + i - 1]]

Max(a, b) == IF a > b THEN a ELSE b
Min(a, b) == IF a < b THEN a ELSE b

\* the place of key k in the list of entries
Place(list, k) == CHOOSE i \in 1..Len(list) : list[i].key = k

\* the slice of the list of at most max entries that ends at key k, or at the
\* entry before it; none when the list has not the key or max <= 0
SliceBefore(list, k, max, inclusive) ==
  IF Count(list, k) = 0 \/ max <= 0 THEN <<>>
  ELSE LET end == IF inclusive THEN Place(list, k) ELSE Place(list, k) - 1
       IN Slice(list, Max(1, end - max + 1), end)

\* the slice of the list of at most max entries that starts at key k, or at
\* the entry after it
SliceAfter(list, k, max, inclusive) ==
  IF Count(list, k) = 0 \/ max <= 0 THEN <<>>
  ELSE LET start == IF inclusive THEN Place(list, k) ELSE Place(list, k) + 1
       IN Slice(list, start, Min(Len(list), start + max - 1))

\* C22: for every map M, rangeBefore(k, max, inclusive) is the slice of
\* M.keysValues() of at most max entries that ends at k (before k when not
\* inclusive), rangeAfter the slice that starts at k (after k); both are empty
\* when k is not in M or max <= 0
C22_Ranges ==
  \A m \in returned, k \in Keys, max \in Maxima, inclusive \in BOOLEAN :
    (~GateThrows(Store, m, "rangeBefore") /\ ~GateThrows(Store, m, "keysValues")) =>
      LET list == BaseKeysValues(Store, m, FALSE)
      IN /\ BaseRangeBefore(Store, m, k, max, inclusive) = SliceBefore(list, k, max, inclusive)
         /\ BaseRangeAfter(Store, m, k, max, inclusive) = SliceAfter(list, k, max, inclusive)

\* the outcomes of the calls of the gated mutation methods on a map, for one
\* item, one key and every flag
GatedCalls(m) ==
  {CallMutation(Store, m, "set", BaseSet(Store, m, items, prependMissing)) :
     items \in OneItemArrays, prependMissing \in BOOLEAN}
  \cup {CallMutation(Store, m, "replace", BaseReplace(Store, m, oldKey, item, f[1], f[2])) :
          oldKey \in Keys, item \in Items, f \in ReplaceFlags}
  \cup {CallMutation(Store, m, "unset", BaseUnset(Store, m, arg)) : arg \in KeyArgs}
  \cup {CallMutation(Store, m, "empty", BaseEmpty(Store, m))}

\* C23: a call that throws the gate error of single or lightweight mode
\* leaves the stores as they were: the heaps, every node, every map (head,
\* tail, length, depth, change), and the number of maps
C23_GateErrorChangesNothing ==
  \A m \in returned : maps[m].mutationOperationOccurred =>
    \A r \in GatedCalls(m) : r.threw => r.st = Store

\* a set of an item the map lacks throws on a mutated single-mode or
\* lightweight-mode map
C23_GateErrorThrown ==
  \E m \in returned, item \in Items :
    /\ maps[m].mode \in {SINGLE, LIGHTWEIGHT} /\ Mutated(m)
    /\ BaseGet(Store, m, item.key) = Undefined
    /\ BaseSet(Store, m, <<item>>, FALSE).ret # m
    /\ CallMutation(Store, m, "set", BaseSet(Store, m, <<item>>, FALSE)).threw

\* C24: reduce(fn) without an initial value on a map that is not empty starts
\* from the first value of the traversal (the last one when reversed) and
\* applies fn once to each of the other entries, in the order of the
\* traversal; with an initial value fn is applied to every entry; on an empty
\* map without an initial value reduce throws
C24_Reduce ==
  \A m \in returned, reversed \in BOOLEAN :
    ~GateThrows(Store, m, "reduce") =>
      LET list == BaseKeysValues(Store, m, reversed)
          bare == Reduce(Store, m, FALSE, Undefined, reversed)
      IN /\ maps[m].length > 0 =>
              (~bare.threw /\ bare.acc = list[1].value /\ bare.calls = Tail(list))
         /\ maps[m].length = 0 => bare.threw
         /\ \A v \in Values :
              LET seeded == Reduce(Store, m, TRUE, v, reversed)
              IN ~seeded.threw /\ seeded.acc = v /\ seeded.calls = list

\* C25: for every map M, get(k) is defined exactly for the keys of M.keys()
\* and is the value M.keysValues() lists with k, and first() and last() are
\* the first and the last entry of M.keysValues(), undefined exactly when
\* M.length is 0
C25_LookupAgreesWithTraversal ==
  \A m \in returned : Readable(m) =>
    LET list == BaseKeysValues(Store, m, FALSE)
    IN /\ \A k \in Keys :
            /\ (BaseGet(Store, m, k) # Undefined) <=> (Count(list, k) > 0)
            /\ \A i \in 1..Len(list) : list[i].key = k => list[i].value = BaseGet(Store, m, k)
       /\ BaseFirst(Store, m) = FirstOf(list)
       /\ BaseLast(Store, m) = LastOf(list)
       /\ (BaseFirst(Store, m) = Hole) <=> (maps[m].length = 0)
       /\ (BaseLast(Store, m) = Hole) <=> (maps[m].length = 0)

\* what the claim compares of the result of a call: keysValues(), get of
\* every key, and length
Content(r) ==
  [forward |-> BaseKeysValues(r.st, r.ret, FALSE),
   get |-> [k \in Keys |-> BaseGet(r.st, r.ret, k)],
   length |-> r.st.maps[r.ret].length]

\* C26: in multiway mode two maps with equal keysValues(), whatever was done
\* before to other maps of the tree, give under the same set of one item and
\* under the same unset of one key results with equal keysValues(), equal
\* get(k) for every key and equal length
C26_HistoryIndependence ==
  \A m1, m2 \in returned :
    (/\ maps[m1].mode = MULTIWAY /\ maps[m2].mode = MULTIWAY
     /\ BaseKeysValues(Store, m1, FALSE) = BaseKeysValues(Store, m2, FALSE)) =>
      /\ \A items \in OneItemArrays :
            Content(BaseSet(Store, m1, items, FALSE)) = Content(BaseSet(Store, m2, items, FALSE))
      /\ \A arg \in KeyArgs :
            Content(BaseUnset(Store, m1, arg)) = Content(BaseUnset(Store, m2, arg))


\* a depth map lists its depths in strictly decreasing order
DecreasingDepths(l) == \A i \in 1..(Len(l) - 1) : l[i].key > l[i + 1].key

\* the nodes the heap index of map m refers to
IndexedNodes(m) ==
  LET heapMap == heaps[maps[m].heap]
  IN IF maps[m].mode = SINGLE
     THEN {heapMap[k][i].value : <<k, i>> \in {x \in Keys \X (1..Len(nodes)) : x[2] <= Len(heapMap[x[1]])}}
     ELSE UNION {{heapMap[k][i].value[j].value : j \in 1..Len(heapMap[k][i].value)} :
                   <<k, i>> \in {x \in Keys \X (1..Len(nodes)) : x[2] <= Len(heapMap[x[1]])}}

\* C27: for every key the depth layer of the heap index, and every indexed
\* node's previous and next neighbour map, lists its depth entries in
\* strictly decreasing depth order, in every reachable state
C27_DepthsDecrease ==
  \A m \in returned :
    maps[m].mode # LIGHTWEIGHT =>
      /\ \A k \in Keys : DecreasingDepths(heaps[maps[m].heap][k])
      /\ \A n \in IndexedNodes(m) :
           DecreasingDepths(nodes[n].previous) /\ DecreasingDepths(nodes[n].next)


---------------------------------------------------------------------------
(* linear histories, run in every mode *)

\* the public call this.method(args), as the class of `this` runs it
Run(st, this, call) ==
  CallMutation(st, this, call.method,
    CASE call.method = "set" -> BaseSet(st, this, call.args.items, call.args.prependMissing)
      [] call.method = "replace" ->
           BaseReplace(st, this, call.args.oldKey, call.args.item,
                       call.args.addMissing, call.args.prependMissing)
      [] call.method = "unset" -> BaseUnset(st, this, call.args.arg)
      [] OTHER -> BaseEmpty(st, this))

\* new ImmutableLinkedOrderedMap({initialItems, mode}) in stores of its own
Made(mode, initialItems) ==
  [st |-> newImmutableLinkedOrderedMap([nodes |-> <<>>, heaps |-> <<>>, maps |-> <<>>],
                                       initialItems, mode),
   ret |-> 1, threw |-> FALSE]

\* what the claim compares after a step: keysValues() forward and reversed,
\* length and get of every key
Outcome(r) ==
  IF r.threw THEN [threw |-> TRUE]
  ELSE [threw |-> FALSE,
        forward |-> BaseKeysValues(r.st, r.ret, FALSE),
        reverse |-> BaseKeysValues(r.st, r.ret, TRUE),
        length |-> r.st.maps[r.ret].length,
        get |-> [k \in Keys |-> BaseGet(r.st, r.ret, k)]]

\* the calls applied each to the result of the previous one, and what the
\* map shows after every step
RECURSIVE Linear(_, _)
Linear(r, calls) ==
  IF calls = <<>> \/ r.threw THEN <<Outcome(r)>>
  ELSE <<Outcome(r)>> \o Linear(Run(r.st, r.ret, Head(calls)), Tail(calls))

\* the calls that led from the factory to map m, oldest first, and the
\* initial items of the factory call
RECURSIVE History(_)
History(m) ==
  IF origin[m].by = Null THEN <<>>
  ELSE Append(History(origin[m].by), [method |-> origin[m].method, args |-> origin[m].args])

RECURSIVE InitialItemsOf(_)
InitialItemsOf(m) ==
  IF origin[m].by = Null THEN origin[m].args.items ELSE InitialItemsOf(origin[m].by)

LinearMethods == {"set", "replace", "unset", "empty"}

\* C28: the same sequence of set, replace, unset and empty calls, each applied
\* to the result of the previous one, from the same initial items, gives in
\* single, multiway and lightweight mode maps with equal keysValues() forward
\* and reversed, equal length and equal get(k) for every k after every step
C28_ModesAgree ==
  \A m \in returned :
    (\A i \in 1..Len(History(m)) : History(m)[i].method \in LinearMethods) =>
       LET single == Linear(Made(SINGLE, InitialItemsOf(m)), History(m))
       IN /\ single = Linear(Made(MULTIWAY, InitialItemsOf(m)), History(m))
          /\ single = Linear(Made(LIGHTWEIGHT, InitialItemsOf(m)), History(m))

\* a history of a replace and an unset, which leaves a map that is not empty
C28_TwoCallHistory ==
  \E m \in returned :
    /\ Len(History(m)) = 2
    /\ History(m)[1].method = "replace"
    /\ History(m)[2].method = "unset"
    /\ maps[m].length > 0
    /\ Len(Linear(Made(LIGHTWEIGHT, InitialItemsOf(m)), History(m))) = 3
    /\ ~Linear(Made(LIGHTWEIGHT, InitialItemsOf(m)), History(m))[3].threw


\* the keys the last call names: the keys of the items of set, the keys of
\* unset, the old key and the key of the item of replace
NamedKeys ==
  CASE last.op = "set" -> {last.args.items[i].key : i \in 1..Len(last.args.items)}
    [] last.op = "replace" -> {last.args.oldKey, last.args.item.key}
    [] OTHER -> {last.args.arg.keys[i] : i \in 1..Len(last.args.arg.keys)}

\* the entries of a list whose keys the last call does not name
Unnamed(list) ==
  LET Other(e) == e.key \notin NamedKeys IN SelectSeq(list, Other)

\* C29: for R = M.set(items), M.unset(k) or M.replace(oldKey, item), every
\* key of M the call does not name has in R the value it has in M, and the
\* unnamed keys follow each other in R as they do in M
C29_Frame ==
  last.op \in {"set", "unset", "replace"} =>
    /\ \A j \in Keys \ NamedKeys :
         last.before.get[j] # Undefined => BaseGet(Store, last.ret, j) = last.before.get[j]
    /\ Unnamed(BaseKeysValues(Store, last.ret, FALSE)) = Unnamed(last.before.forward)


\* C30: in single mode no map has two distinct children, and no two distinct
\* maps that share a heap index have the same depth
C30_SingleBranch ==
  \A a, b \in returned :
    (maps[a].mode = SINGLE /\ maps[b].mode = SINGLE /\ a # b) =>
      /\ maps[a].ancestorMap # Null => maps[a].ancestorMap # maps[b].ancestorMap
      /\ maps[a].heap = maps[b].heap => maps[a].depth # maps[b].depth


\* the keys of an array of items
ItemKeys(items) == {items[i].key : i \in 1..Len(items)}

\* C31: a map built by the factory from initial items in which a key occurs
\* more than once lists every key once, holds for it the value of its last
\* occurrence, and has as length the number of distinct keys
C31_FactoryDuplicates ==
  \A m \in returned :
    origin[m].method = "new" =>
      LET items == origin[m].args.items
          view == shown[m]
      IN /\ \A k \in ItemKeys(items) :
              /\ Count(view.forward, k) = 1
              /\ view.get[k] = items[LastIndex(items, k)].value
         /\ view.length = Cardinality(ItemKeys(items))


\* C32: after R = M.unset(k) the key k is absent in R for every later call:
\* R.unset(k) and R.replace(k, item) without addMissing return R itself, and
\* R.set of an item of key k inserts it as the new last entry (the first
\* with prependMissing), with length R.length + 1 and the other entries of R
\* in place
C32_UnsetKeyIsAbsent ==
  last.op = "unset" =>
    \A k \in NamedKeys :
      LET R == last.ret
          entries == BaseKeysValues(Store, R, FALSE)
      IN /\ Run(Store, R, [method |-> "unset",
                           args |-> UnsetArgs([kind |-> "key", keys |-> <<k>>])]).ret = R
         /\ \A item \in Items :
              Run(Store, R, [method |-> "replace",
                             args |-> ReplaceArgs(k, item, FALSE, FALSE)]).ret = R
         /\ \A v \in Values, prependMissing \in BOOLEAN :
              LET item == [key |-> k, value |-> v]
                  r == Run(Store, R, [method |-> "set",
                                      args |-> SetArgs(<<item>>, prependMissing)])
              IN /\ ~r.threw
                 /\ r.ret # R
                 /\ r.st.maps[r.ret].length = maps[R].length + 1
                 /\ BaseKeysValues(r.st, r.ret, FALSE) =
                      IF prependMissing THEN <<item>> \o entries ELSE Append(entries, item)


\* C37: in the entry file, after R = M.unset(k) has removed k from a map with
\* other entries, k is absent in R: R.unset(k) returns R itself, and R.set of
\* an item of key k appends it as the new last entry, with length
\* R.length + 1 and the other entries of R in place
C37_EntryUnsetKeyIsAbsent ==
  (/\ last.op = "unset"
   /\ last.ret # last.on
   /\ maps[last.ret].file = EntryFile
   /\ maps[last.ret].length > 0) =>
    \A k \in NamedKeys :
      LET R == last.ret
          entries == BaseKeysValues(Store, R, FALSE)
      IN /\ CallMutation(Store, R, "unset", unsetKey(Store, R, k)).ret = R
         /\ \A v \in Values :
              LET item == [key |-> k, value |-> v]
                  r == Run(Store, R, [method |-> "set", args |-> SetArgs(<<item>>, FALSE)])
              IN /\ ~r.threw
                 /\ r.ret # R
                 /\ r.st.maps[r.ret].length = maps[R].length + 1
                 /\ BaseKeysValues(r.st, r.ret, FALSE) = Append(entries, item)


\* C38: in the entry file, for two multiway maps A and B that share a heap
\* index, the version of A passes isAncestorVersionOfDescendantVersion for the
\* version of B exactly when A is B or an ancestor of B, and the node a lookup
\* from B returns was written to the heap index by B or an ancestor of B,
\* never on a sibling branch
C38_EntryVersionDescent ==
  \A a, b \in returned :
    (/\ maps[a].file = EntryFile /\ maps[b].file = EntryFile
     /\ maps[a].mode = MULTIWAY /\ maps[b].mode = MULTIWAY
     /\ maps[a].heap = maps[b].heap) =>
      /\ isAncestorVersionOfDescendantVersion(maps[a].version, maps[b].version)
           <=> a \in Lineage(b)
      /\ \A key \in Keys :
           lookup(Store, b, key) # Undefined =>
             \E w \in Lineage(b) :
               <<key, maps[w].depth, maps[w].version, lookup(Store, b, key)>>
                 \in UNION {UNION {{<<k, heaps[maps[b].heap][k][i].key,
                                      heaps[maps[b].heap][k][i].value[j].key,
                                      heaps[maps[b].heap][k][i].value[j].value>> :
                                      j \in DOMAIN heaps[maps[b].heap][k][i].value} :
                                    i \in DOMAIN heaps[maps[b].heap][k]} :
                             k \in Keys}


\* the mode of the maps that share heap index h
HeapMode(h) == maps[CHOOSE m \in 1..Len(maps) : maps[m].heap = h].mode

\* the entries of a heap index: <<key, depth, node>> in single mode,
\* <<key, depth, version, node>> in multiway mode
HeapEntries(heapMap, mode) ==
  IF mode = SINGLE
  THEN UNION {{<<k, heapMap[k][i].key, heapMap[k][i].value>> : i \in DOMAIN heapMap[k]} :
                k \in Keys}
  ELSE UNION {UNION {{<<k, heapMap[k][i].key, heapMap[k][i].value[j].key,
                        heapMap[k][i].value[j].value>> : j \in DOMAIN heapMap[k][i].value} :
                       i \in DOMAIN heapMap[k]} :
                k \in Keys}

\* C33: in single and multiway mode every entry of a heap index stays
\* present and keeps its node in every later state
C33_HeapMonotonic ==
  [][\A h \in 1..Len(heaps) :
       HeapMode(h) # LIGHTWEIGHT =>
         HeapEntries(heaps[h], HeapMode(h)) \subseteq HeapEntries(heaps'[h], HeapMode(h))]_vars


\* C34: for two multiway maps A and B that share a heap index, the version of
\* A is a prefix of the version of B exactly when A is B or an ancestor of B,
\* and two distinct maps never have equal versions
C34_VersionPrefix ==
  \A a, b \in returned :
    (maps[a].mode = MULTIWAY /\ maps[b].mode = MULTIWAY /\ maps[a].heap = maps[b].heap) =>
      /\ isAncestorVersionOfDescendantVersion(maps[a].version, maps[b].version)
           <=> a \in Lineage(b)
      /\ a # b => maps[a].version # maps[b].version

\* a map with ten children and more, one of which has a child
C34_TenChildren ==
  /\ maps[1].mode = MULTIWAY
  /\ maps[1].childrenCount >= 10
  /\ \E a, b \in returned : maps[b].ancestorMap = a /\ maps[a].ancestorMap = 1


\* version w is version v with something appended
StrictExtension(v, w) == Len(w) > Len(v) /\ SubSeq(w, 1, Len(v)) = v

\* the statement of C35 as written: in multiway mode the version of every map
\* that has an ancestor, the result of empty included, is a strict extension
\* of the version of its ancestor
C35_EveryVersionExtends ==
  \A r \in returned :
    (maps[r].mode = MULTIWAY /\ maps[r].ancestorMap # Null) =>
      StrictExtension(maps[maps[r].ancestorMap].version, maps[r].version)

\* C35: in multiway mode the version of a map made by set, replace or unset
\* is a strict extension of the version of its ancestor; the map made by
\* empty starts a heap index of its own with the initial version
C35_ForkVersionExtends ==
  \A r \in returned :
    (maps[r].mode = MULTIWAY /\ maps[r].ancestorMap # Null) =>
      IF origin[r].method = "empty"
      THEN /\ maps[r].version = MULTIWAY_MODE_INITIAL_MAP_TREE_DEPTH_VERSION
           /\ maps[r].heap # maps[maps[r].ancestorMap].heap
      ELSE StrictExtension(maps[maps[r].ancestorMap].version, maps[r].version)

\* a multiway map emptied below the root, next to maps made by a fork
C35_EmptiedFork ==
  \E e, r \in returned :
    /\ maps[e].mode = MULTIWAY
    /\ origin[e].method = "empty"
    /\ maps[e].ancestorMap = r
    /\ origin[r].method \in {"set", "replace"}
    /\ Len(maps[r].version) > 0


\* the n-th ancestor of a map
RECURSIVE Up(_, _)
Up(m, n) == IF n = 0 THEN m ELSE Up(maps[m].ancestorMap, n - 1)

\* the maps a call of set, replace, unset or empty has made
MadeByCall == {r \in returned : origin[r].method \in LinearMethods}

NoRepeat(visited) ==
  \A i, j \in 1..Len(visited) : i # j => visited[i] # visited[j]

\* C39: on every map, in every mode, the walks of forEach forward and
\* reversed, of rangeBefore and of rangeAfter (from any key, with or without
\* the item at the key, with no maximum) visit no node twice and end before
\* they have visited more nodes than there are
C39_TraversalsTerminate ==
  \A m \in 1..Len(maps) :
      /\ \A reversed \in BOOLEAN :
           /\ NoRepeat(ForEachNodes(Store, m, reversed))
           /\ Len(ForEachNodes(Store, m, reversed)) <= Len(nodes)
      /\ \A key \in Keys, itemAtKeyIncluded \in BOOLEAN, direction \in {"previous", "next"} :
           LET range == RangeNodes(Store, m, key, Infinity(Store), itemAtKeyIncluded,
                                   direction)
           IN NoRepeat(range) /\ Len(range) <= Len(nodes)

\* a lightweight map made by a mutation whose walks, forward, reversed and
\* back from its last key, each visit two nodes or more
C39_WalkedAfterMutation ==
  \E m \in returned :
    /\ maps[m].mode = LIGHTWEIGHT
    /\ origin[m].by # Null
    /\ ~GateThrows(Store, m, "forEach")
    /\ Len(ForEachNodes(Store, m, FALSE)) >= 2
    /\ Len(ForEachNodes(Store, m, TRUE)) >= 2
    /\ Len(RangeNodes(Store, m, BaseLast(Store, m).key, Infinity(Store), TRUE,
                      "previous")) >= 2


=============================================================================
